---- MODULE Spec2Model ----
(***************************************************************************)
(* A model of AutoEDAer's processors: data_import.py (DataImport) and      *)
(* data_processing.py (DataProcess, MissingValue).  Every function of the  *)
(* library is a stateless call on a pandas DataFrame or Series, so the     *)
(* state is the caller's objects (df, series), the last call made (call)   *)
(* and what that call gave back (ret).                                     *)
(***************************************************************************)
EXTENDS Integers, Sequences, FiniteSets, TLC

VARIABLES
    df,      \* the DataFrame the caller holds; in-place operations change it
    series,  \* the Series the caller holds (infer_numeric_dtype)
    call,    \* the last call: its name and its arguments
    ret      \* what the last call returned or raised

vars == <<df, series, call, ret>>

(***************************************************************************)
(* Bounds of the model.                                                    *)
(***************************************************************************)
MaxLen == 2     \* longest Series given to infer_numeric_dtype
MaxRows == 3    \* most rows of the caller's DataFrame
MaxCastRows == 2  \* most rows of a DataFrame given to convert_data_type
MaxBinRows == 2   \* most rows of a DataFrame given to bin_columns
MaxBins == 3      \* most intervals asked of bin_columns by number
RateRows == 5     \* rows of the DataFrame on which 1 - 0.8 is not a fifth

(***************************************************************************)
(* Cells, columns and DataFrames.  A cell is the missing marker NaN (NaT   *)
(* in a datetime column), a number held exactly as a fraction n/d in       *)
(* lowest terms, an infinity, the integer -2^63 (what NaT is as an int64), *)
(* a Timestamp held as its nanoseconds since the epoch, a str held as the  *)
(* sequence of its code points, or some other Python object (a dict).  A   *)
(* DataFrame is its row index and its columns in order.  A row label is an *)
(* int (RangeIndex(n) as read_csv and concat(ignore_index=True) make it,   *)
(* or what drop_duplicates leaves of it) or a str (the keys of the JSON    *)
(* object imoprt_url reads); a column name is a str, or the int 0.         *)
(***************************************************************************)
RECURSIVE GCD(_, _)
GCD(a, b) == IF b = 0 THEN a ELSE GCD(b, a % b)

Abs(x) == IF x < 0 THEN -x ELSE x

NaN == [k |-> "nan", n |-> 0, d |-> 1, s |-> <<>>]

NaT == [k |-> "nat", n |-> 0, d |-> 1, s |-> <<>>]

Num(n, d) ==
    LET g == GCD(Abs(n), d)
    IN [k |-> "num", n |-> n \div g, d |-> d \div g, s |-> <<>>]

\* float('inf') and float('-inf'): sgn is 1 or -1
Inf(sgn) == [k |-> "inf", n |-> sgn, d |-> 1, s |-> <<>>]

\* the integer -2^63, np.iinfo(np.int64).min
iNaT == [k |-> "iNaT", n |-> 0, d |-> 1, s |-> <<>>]

\* pd.Timestamp(ns): ns nanoseconds after 1970-01-01
Timestamp(ns) == [k |-> "datetime", n |-> ns, d |-> 1, s |-> <<>>]

Str(s) == [k |-> "str", n |-> 0, d |-> 1, s |-> s]

Obj == [k |-> "obj", n |-> 0, d |-> 1, s |-> <<>>]

isna(c) == c.k \in {"nan", "nat"}

NumLess(x, y) == x.n * y.d < y.n * x.d
NumAdd(x, y) == Num(x.n * y.d + y.n * x.d, x.d * y.d)
NumMul(x, y) == Num(x.n * y.n, x.d * y.d)
NumDivInt(x, m) == Num(x.n, x.d * m)

Column(name, dtype, values) == [name |-> name, dtype |-> dtype, values |-> values]

\* RangeIndex(n): the row labels 0..n-1
RangeIndex(n) == [i \in 1..n |-> i - 1]

DataFrame(index, cols) == [n |-> Len(index), index |-> index, cols |-> cols]

EmptyFrame == DataFrame(<<>>, <<>>)

\* label == other, for two labels each of which is an int or a str: an int and
\* a str are never equal
same_label(label, other) == ToString(label) = ToString(other)

\* df.columns, as a sequence and as a set
columns_of(t) == [i \in 1..Len(t.cols) |-> t.cols[i].name]
names_of(t) == {t.cols[i].name : i \in 1..Len(t.cols)}

\* df[name]
col(t, name) == t.cols[CHOOSE i \in 1..Len(t.cols) : t.cols[i].name = name]

\* the subsequence of s at the positions where keep holds, in order
RECURSIVE SelectIdx(_, _, _)
SelectIdx(s, keep, i) ==
    IF i > Len(s) THEN <<>>
    ELSE (IF keep[i] THEN <<s[i]>> ELSE <<>>) \o SelectIdx(s, keep, i + 1)

SeqToSet(s) == {s[i] : i \in 1..Len(s)}

RECURSIVE Flatten(_)
Flatten(ss) == IF ss = <<>> THEN <<>> ELSE Head(ss) \o Flatten(Tail(ss))

SeqsOver(S, n) == UNION {[1..k -> S] : k \in 0..n}

\* df.loc[:, mask]: the columns whose mask is true, each unchanged
loc_columns(t, mask) == DataFrame(t.index, SelectIdx(t.cols, mask, 1))

\* df.take(rows): the rows at the given positions (1-based), in that order
take_rows(t, rows) ==
    DataFrame([i \in 1..Len(rows) |-> t.index[rows[i]]],
        [j \in 1..Len(t.cols) |->
            Column(t.cols[j].name, t.cols[j].dtype,
                   [i \in 1..Len(rows) |-> t.cols[j].values[rows[i]]])])

\* Series.count(): the number of non-missing cells
count(values) == Cardinality({i \in 1..Len(values) : ~isna(values[i])})

(***************************************************************************)
(* What a call gives back: a DataFrame, None, a dtype, or an exception.    *)
(***************************************************************************)
Returned(t) == [kind |-> "DataFrame", table |-> t, exc |-> "", dtype |-> ""]
ReturnedNone == [kind |-> "None", table |-> EmptyFrame, exc |-> "", dtype |-> ""]
ReturnedDtype(d) == [kind |-> "dtype", table |-> EmptyFrame, exc |-> "", dtype |-> d]
Raised(e) == [kind |-> "raise", table |-> EmptyFrame, exc |-> e, dtype |-> ""]
NoReturn == [kind |-> "init", table |-> EmptyFrame, exc |-> "", dtype |-> ""]

NoCall == [op |-> "init"]

(***************************************************************************)
(* 64-bit integers.  TLC's integers are 32 bits wide, so a value v of an   *)
(* integer Series is held exactly as three limbs <<a, b, c>> with          *)
(* v = a * 2^48 + b * 2^24 + c, 0 <= b, c < 2^24, and a signed.            *)
(***************************************************************************)
Limb == 4096 * 4096

Big(a, b, c) == <<a, b, c>>

\* v with |v| < 2^24
Small(v) == IF v >= 0 THEN <<0, 0, v>> ELSE <<-1, Limb - 1, Limb + v>>

BigLess(x, y) ==
    \/ x[1] < y[1]
    \/ x[1] = y[1] /\ x[2] < y[2]
    \/ x[1] = y[1] /\ x[2] = y[2] /\ x[3] < y[3]

BigLeq(x, y) == x = y \/ BigLess(x, y)

\* np.iinfo(t).min and np.iinfo(t).max
iinfo_min(t) ==
    CASE t = "int8"  -> Small(-128)
      [] t = "int16" -> Small(-32768)
      [] t = "int32" -> Big(-1, Limb - 128, 0)
      [] t = "int64" -> Big(-32768, 0, 0)
      [] OTHER       -> Small(0)

iinfo_max(t) ==
    CASE t = "int8"   -> Small(127)
      [] t = "int16"  -> Small(32767)
      [] t = "int32"  -> Big(0, 127, Limb - 1)
      [] t = "int64"  -> Big(32767, Limb - 1, Limb - 1)
      [] t = "uint8"  -> Small(255)
      [] t = "uint16" -> Small(65535)
      [] t = "uint32" -> Big(0, 255, Limb - 1)
      [] OTHER        -> Big(65535, Limb - 1, Limb - 1)

SignedTypes == <<"int8", "int16", "int32", "int64">>
UnsignedTypes == <<"uint8", "uint16", "uint32", "uint64">>
IntDtypes == {SignedTypes[i] : i \in 1..4} \cup {UnsignedTypes[i] : i \in 1..4}

\* numpy's dtype.kind and itemsize (in bits), for the dtypes a column or a
\* Series has here: the integers, float32 and float64, datetime64[ns], bool,
\* object, and category (pandas' own, of kind "O")
kind(t) ==
    CASE t \in {SignedTypes[i] : i \in 1..4}   -> "i"
      [] t \in {UnsignedTypes[i] : i \in 1..4} -> "u"
      [] t \in {"float32", "float64"}          -> "f"
      [] t = "datetime64[ns]"                  -> "M"
      [] t = "bool"                            -> "b"
      [] t \in {"object", "category"}          -> "O"

bits(t) ==
    CASE t \in {"int8", "uint8", "bool"} -> 8
      [] t \in {"int16", "uint16"} -> 16
      [] t \in {"int32", "uint32", "float32"} -> 32
      [] t \in {"int64", "uint64", "float64", "datetime64[ns]", "object"} -> 64

\* Series.min() and Series.max() of a non-empty integer Series
series_min(s) ==
    CHOOSE v \in {s.values[i] : i \in 1..Len(s.values)} :
        \A w \in {s.values[i] : i \in 1..Len(s.values)} : BigLeq(v, w)

series_max(s) ==
    CHOOSE v \in {s.values[i] : i \in 1..Len(s.values)} :
        \A w \in {s.values[i] : i \in 1..Len(s.values)} : BigLeq(w, v)

fits(s, t) ==
    BigLeq(iinfo_min(t), series_min(s)) /\ BigLeq(series_max(s), iinfo_max(t))

\* n without its factors of 2; whether d is a power of 2
RECURSIVE OddPart(_)
OddPart(n) == IF n # 0 /\ n % 2 = 0 THEN OddPart(n \div 2) ELSE n

RECURSIVE IsPow2(_)
IsPow2(d) == d = 1 \/ (d % 2 = 0 /\ IsPow2(d \div 2))

\* x == x.astype(np.float32) for a cell x of a float Series: the cast to float32
\* keeps a float64 whose significand has at most 24 bits (its exponent is in
\* float32's range for every fraction held here) and rounds every other one.
\* A fraction whose denominator is no power of 2 stands for the float64 nearest
\* to it, whose significand has 53 bits.
\* np.all(series.dropna() == series.dropna().astype(np.float32)) says whether
\* that holds for every value that is not missing.
all_float32(s) ==
    \A i \in 1..Len(s.values) :
        LET x == s.values[i]
        IN \/ isna(x)
           \/ x.k \in {"inf", "iNaT"}
           \/ x.k = "num" /\ IsPow2(x.d) /\ Abs(OddPart(x.n)) < Limb

\* The mutant of infer_numeric_dtype: each width is tested on the maximum alone.
infer_numeric_dtype_max_only(s) ==
    IF kind(s.dtype) \in {"i", "u"}
    THEN IF s.values = <<>> THEN s.dtype
         ELSE IF BigLeq(series_max(s), iinfo_max("int8")) THEN "int8"
         ELSE IF BigLeq(series_max(s), iinfo_max("int16")) THEN "int16"
         ELSE IF BigLeq(series_max(s), iinfo_max("int32")) THEN "int32"
         ELSE IF BigLeq(series_max(s), iinfo_max("int64")) THEN "int64"
         ELSE s.dtype
    ELSE IF kind(s.dtype) = "f"
    THEN IF all_float32(s) THEN "float32" ELSE "float64"
    ELSE s.dtype

\* DataProcess.infer_numeric_dtype.  Integer kind: the if/elif chain over int8,
\* int16, int32, int64, and series.dtype when none fits; min() and max() of an
\* empty Series are NaN, every comparison with NaN is false and the chain falls
\* through to series.dtype.  Float kind: float32 when no value changes in
\* float32, float64 otherwise.  Any other kind: series.dtype.
infer_numeric_dtype(s) ==
    IF kind(s.dtype) \in {"i", "u"}
    THEN IF s.values = <<>> THEN s.dtype
         ELSE IF fits(s, "int8") THEN "int8"
         ELSE IF fits(s, "int16") THEN "int16"
         ELSE IF fits(s, "int32") THEN "int32"
         ELSE IF fits(s, "int64") THEN "int64"
         ELSE s.dtype
    ELSE IF kind(s.dtype) = "f"
    THEN IF all_float32(s) THEN "float32" ELSE "float64"
    ELSE s.dtype

(***************************************************************************)
(* The Series infer_numeric_dtype is given.  Integer values: the edges of  *)
(* every width, their neighbours, and the values of the documented         *)
(* examples.  Float values: one float32 holds (3/2), two it does not hold  *)
(* (1/10 and 2^24 + 1), and NaN.                                           *)
(***************************************************************************)
InDtype(v, t) == BigLeq(iinfo_min(t), v) /\ BigLeq(v, iinfo_max(t))

\* every Series of at most MaxLen values of an integer dtype that can hold them
ValidSeries ==
    LET SeriesValues ==
            { Small(-5), Small(0), Small(100), Small(40000),
              Small(-129), Small(-128), Small(127), Small(128), Small(255),
              Small(-32769), Small(-32768), Small(32767), Small(32768),
              Big(-1, Limb - 129, Limb - 1), Big(-1, Limb - 128, 0),
              Big(0, 127, Limb - 1), Big(0, 128, 0),
              Big(-32768, 0, 0), Big(32767, Limb - 1, Limb - 1),
              Big(65535, Limb - 1, Limb - 1) }
    IN
    { s \in { [dtype |-> t, values |-> vs] :
                t \in IntDtypes, vs \in SeqsOver(SeriesValues, MaxLen) } :
        \A i \in 1..Len(s.values) : InDtype(s.values[i], s.dtype) }

FloatSeries ==
    { [dtype |-> "float64", values |-> vs] :
        vs \in SeqsOver({NaN, Num(3, 2), Num(1, 10), Num(Limb + 1, 1)}, MaxLen) }
    \cup { [dtype |-> "float32", values |-> vs] : vs \in SeqsOver({NaN, Num(3, 2)}, MaxLen) }

ObjectSeries ==
    { [dtype |-> "object", values |-> vs] : vs \in SeqsOver({Str(<<120>>)}, MaxLen) }

NoSeries == [dtype |-> "int64", values |-> <<>>]

(***************************************************************************)
(* MissingValue: the pandas operations it calls.                           *)
(***************************************************************************)

\* the non-missing cells of a column, in row order (Series.dropna())
RECURSIVE dropna_values(_)
dropna_values(values) ==
    IF values = <<>> THEN <<>>
    ELSE (IF isna(Head(values)) THEN <<>> ELSE <<Head(values)>>) \o dropna_values(Tail(values))

RECURSIVE SumNums(_)
SumNums(values) ==
    IF values = <<>> THEN Num(0, 1) ELSE NumAdd(Head(values), SumNums(Tail(values)))

\* the numbers of a set in ascending order
RECURSIVE SortNums(_)
SortNums(S) ==
    IF S = {} THEN <<>>
    ELSE LET m == CHOOSE x \in S : \A y \in S : ~NumLess(y, x)
         IN <<m>> \o SortNums(S \ {m})

\* the non-missing cells of a column in ascending order, repeats kept
RECURSIVE SortValues(_)
SortValues(values) ==
    IF values = <<>> THEN <<>>
    ELSE LET i == CHOOSE j \in 1..Len(values) :
                      \A l \in 1..Len(values) : ~NumLess(values[l], values[j])
         IN <<values[i]>> \o
            SortValues([j \in 1..(Len(values) - 1) |-> IF j < i THEN values[j] ELSE values[j + 1]])

\* Series.mean(), Series.median(): over the non-missing cells, NaN when there are none
mean(values) ==
    LET xs == dropna_values(values)
    IN IF xs = <<>> THEN NaN ELSE NumDivInt(SumNums(xs), Len(xs))

median(values) ==
    LET xs == SortValues(dropna_values(values))
        m == Len(xs)
    IN IF m = 0 THEN NaN
       ELSE IF m % 2 = 1 THEN xs[(m + 1) \div 2]
       ELSE NumDivInt(NumAdd(xs[m \div 2], xs[m \div 2 + 1]), 2)

\* Series.mode(): the most frequent non-missing values, ascending
mode(values) ==
    LET xs == dropna_values(values)
        S == SeqToSet(xs)
        occurrences(vs, x) == Cardinality({i \in 1..Len(vs) : vs[i] = x})
    IN SortNums({x \in S : \A y \in S : occurrences(xs, y) <= occurrences(xs, x)})

statistic(method, values) ==
    IF method = "median" THEN median(values) ELSE mean(values)

\* df.fillna(v) with v a Series of one value per column (df.mean(), df.median()):
\* every column of df is filled with its own value; a NaN value fills nothing
fillna_series(t, method) ==
    DataFrame(t.index,
        [j \in 1..Len(t.cols) |->
            LET c == t.cols[j]
                v == statistic(method, c.values)
            IN Column(c.name, c.dtype,
                   [i \in 1..t.n |-> IF isna(c.values[i]) THEN v ELSE c.values[i]])])

\* df.fillna(df.mode()): df.mode() is a DataFrame whose row i holds each column's
\* i-th mode, so a missing cell of the row labelled i becomes the column's i-th
\* mode (0-based) when the column has that many modes, and stays missing
\* otherwise, as it does in a row whose label is no row label of df.mode()
fillna_mode(t) ==
    DataFrame(t.index,
        [j \in 1..Len(t.cols) |->
            LET c == t.cols[j]
                m == mode(c.values)
            IN Column(c.name, c.dtype,
                   [i \in 1..t.n |->
                       IF isna(c.values[i]) /\ \E k \in 1..Len(m) : same_label(t.index[i], k - 1)
                       THEN m[CHOOSE k \in 1..Len(m) : same_label(t.index[i], k - 1)]
                       ELSE c.values[i]])])

\* df.fillna(value) with a scalar: every missing cell of every column
fillna_value(t, value) ==
    DataFrame(t.index,
        [j \in 1..Len(t.cols) |->
            LET c == t.cols[j]
            IN Column(c.name, c.dtype,
                   [i \in 1..t.n |-> IF isna(c.values[i]) THEN value ELSE c.values[i]])])

\* df.fillna(method='ffill' | 'bfill'), every column: a cell becomes the last
\* non-missing cell at or before its row, or the first at or after it; a missing
\* cell that has none stays as it is
fillna_method(t, method) ==
    LET prev_valid(values, i) ==
            LET S == {j \in 1..i : ~isna(values[j])}
            IN IF S = {} THEN values[i] ELSE values[CHOOSE j \in S : \A l \in S : l <= j]
        next_valid(values, i) ==
            LET S == {j \in i..Len(values) : ~isna(values[j])}
            IN IF S = {} THEN values[i] ELSE values[CHOOSE j \in S : \A l \in S : j <= l]
    IN
    DataFrame(t.index,
        [j \in 1..Len(t.cols) |->
            LET c == t.cols[j]
            IN Column(c.name, c.dtype,
                   [i \in 1..t.n |->
                       IF method = "ffill" THEN prev_valid(c.values, i)
                       ELSE next_valid(c.values, i)])])

\* Series.interpolate(method='linear'), limit_direction forward: a missing cell
\* between two valid ones lies on the line through them (rows equally spaced), a
\* missing cell after the last valid one repeats it, one before the first stays
interpolate_linear(values, i) ==
    LET before == {j \in 1..i : ~isna(values[j])}
        after == {j \in i..Len(values) : ~isna(values[j])}
    IN IF ~isna(values[i]) \/ before = {} THEN values[i]
       ELSE LET lo == CHOOSE j \in before : \A l \in before : l <= j
            IN IF after = {} THEN values[lo]
               ELSE LET hi == CHOOSE j \in after : \A l \in after : j <= l
                        x == values[lo]
                        y == values[hi]
                    IN NumAdd(x, Num((y.n * x.d - x.n * y.d) * (i - lo),
                                     x.d * y.d * (hi - lo)))

\* the polynomial of least degree through the points <<xs[l], ys[l]>>, at x
\* (Lagrange's form): basis is the product over m # l, from m on, of
\* (x - xs[m]) / (xs[l] - xs[m])
RECURSIVE basis(_, _, _, _)
basis(xs, l, x, m) ==
    IF m > Len(xs) THEN Num(1, 1)
    ELSE IF m = l THEN basis(xs, l, x, m + 1)
    ELSE LET a == x - xs[m]
             b == xs[l] - xs[m]
         IN NumMul(IF b < 0 THEN Num(-a, -b) ELSE Num(a, b), basis(xs, l, x, m + 1))

RECURSIVE polynomial(_, _, _, _)
polynomial(xs, ys, x, l) ==
    IF l > Len(xs) THEN Num(0, 1)
    ELSE NumAdd(NumMul(ys[l], basis(xs, l, x, 1)), polynomial(xs, ys, x, l + 1))

\* scipy.interpolate.interp1d(x, y, kind='quadratic' | 'cubic',
\* bounds_error=False) at the missing rows, x being the row labels of the valid
\* cells: a missing cell between the first and the last valid one gets the value
\* of the spline there, one outside them stays missing.  The spline of order k
\* through k + 1 points is the polynomial through them, which is the case held
\* here: a column with a missing cell and more than k + 1 valid ones needs k + 3
\* rows, more than a DataFrame of the model has.
interpolate_spline(index, values) ==
    LET valid == [i \in 1..Len(values) |-> ~isna(values[i])]
        xs == SelectIdx(index, valid, 1)
        ys == SelectIdx(values, valid, 1)
    IN [i \in 1..Len(values) |->
           IF valid[i] \/ index[i] < xs[1] \/ index[i] > xs[Len(xs)] THEN values[i]
           ELSE polynomial(xs, ys, index[i], 1)]

\* df.interpolate(method=method).  A DataFrame without rows or without
\* columns comes back as it is.  The float columns are interpolated; an integer
\* or a bool column holds no missing cell and is left as it is.  'linear' is
\* numpy's and takes the rows as equally spaced.  'quadratic' and 'cubic' take
\* the row labels as the x of the points: ValueError for a row index that is not
\* numeric (one of str labels).  They go to scipy for each column that has
\* something to interpolate, a missing cell and a valid one: importing scipy
\* raises ImportError where it is not installed, and interp1d raises ValueError
\* for fewer valid cells than the order of the spline plus one.
interpolate(t, method, scipy) ==
    LET is_float(j) ==
            CASE kind(t.cols[j].dtype) = "f" -> TRUE
              [] kind(t.cols[j].dtype) \in {"i", "u", "b"} -> FALSE
        is_str(label) == SubSeq(ToString(label), 1, 1) = "\""
        order == IF method = "quadratic" THEN 2 ELSE 3
        todo == {j \in 1..Len(t.cols) :
                    /\ is_float(j)
                    /\ \E i \in 1..t.n : isna(t.cols[j].values[i])
                    /\ \E i \in 1..t.n : ~isna(t.cols[j].values[i])}
    IN IF t.n = 0 \/ t.cols = <<>> THEN Returned(t)
       ELSE IF method = "linear"
       THEN Returned(DataFrame(t.index,
                [j \in 1..Len(t.cols) |->
                    Column(t.cols[j].name, t.cols[j].dtype,
                           IF is_float(j)
                           THEN [i \in 1..t.n |-> interpolate_linear(t.cols[j].values, i)]
                           ELSE t.cols[j].values)]))
       ELSE IF \E i \in 1..t.n : is_str(t.index[i]) THEN Raised("ValueError")
       ELSE IF todo = {} THEN Returned(t)
       ELSE IF ~scipy THEN Raised("ImportError")
       ELSE IF \E j \in todo : count(t.cols[j].values) < order + 1 THEN Raised("ValueError")
       ELSE Returned(DataFrame(t.index,
                [j \in 1..Len(t.cols) |->
                    Column(t.cols[j].name, t.cols[j].dtype,
                           IF j \in todo THEN interpolate_spline(t.index, t.cols[j].values)
                           ELSE t.cols[j].values)]))

\* df[columns]: the named columns, in the order given
select_columns(t, columns) ==
    DataFrame(t.index, [j \in 1..Len(columns) |-> col(t, columns[j])])

\* df.groupby(by)[columns].transform(method), by one key column: each row gets the
\* statistic of its group's non-missing cells; a row whose key is missing is in
\* no group and gets NaN
groupby_transform(t, by, columns, method) ==
    LET group_values(values, i) ==
            LET key == col(t, by).values
                rows == {j \in 1..t.n : key[j] = key[i]}
            IN SelectIdx(values, [j \in 1..t.n |-> j \in rows], 1)
    IN
    DataFrame(t.index,
        [j \in 1..Len(columns) |->
            LET c == col(t, columns[j])
            IN Column(c.name, c.dtype,
                   [i \in 1..t.n |->
                       IF isna(col(t, by).values[i]) THEN NaN
                       ELSE statistic(method, group_values(c.values, i))])])

\* a.fillna(b) with b a DataFrame of the same rows and columns
fillna_frame(a, b) ==
    DataFrame(a.index,
        [j \in 1..Len(a.cols) |->
            LET c == a.cols[j]
            IN Column(c.name, c.dtype,
                   [i \in 1..a.n |->
                       IF isna(c.values[i]) THEN b.cols[j].values[i] ELSE c.values[i]])])

\* Index.get_indexer_for(labels) on the row index: for each label in turn, the
\* positions (from 0) of the rows that bear it, or -1 for a label that is no row
\* label.  No label of a RangeIndex is a str.
get_indexer_for(t, labels) ==
    Flatten([l \in 1..Len(labels) |->
        LET rows == SelectIdx([i \in 1..t.n |-> i - 1],
                              [i \in 1..t.n |-> same_label(t.index[i], labels[l])], 1)
        IN IF rows = <<>> THEN <<-1>> ELSE rows])

\* df.dropna(axis=1, thresh=thresh, subset=subset).  With axis=1 pandas looks
\* subset up in the ROW index (the other axis), raises KeyError for a label that
\* is not there, counts each column's non-missing cells over the rows found, and
\* keeps the columns whose count is at least thresh.
dropna_axis1(t, thresh, subset) ==
    LET indices == get_indexer_for(t, subset)
    IN IF \E i \in 1..Len(indices) : indices[i] = -1
       THEN Raised("KeyError")
       ELSE LET agg_obj == take_rows(t, [i \in 1..Len(indices) |-> indices[i] + 1])
            IN Returned(loc_columns(t,
                   [j \in 1..Len(t.cols) |-> count(agg_obj.cols[j].values) >= thresh]))

(***************************************************************************)
(* Python's float, an IEEE 754 double.  A double that is not negative, no  *)
(* NaN and no infinity is held exactly as [bits, exp], which stands for    *)
(* bits * 2^exp: bits are the binary digits of an integer, the highest     *)
(* first (zeros may lead, <<>> is 0).  The result of an operation is the   *)
(* exact result rounded to 53 significant bits, to float32's 24 in a cast  *)
(* to float32 (the exponents met here are in the normal range).            *)
(***************************************************************************)
\* digits * n + carry, for small n and carry
RECURSIVE bits_times(_, _, _)
bits_times(digits, n, carry) ==
    IF carry = 0 /\ digits = <<>> THEN <<>>
    ELSE IF digits = <<>> THEN bits_times(<<>>, n, carry \div 2) \o <<carry % 2>>
    ELSE LET t == digits[Len(digits)] * n + carry
         IN bits_times(SubSeq(digits, 1, Len(digits) - 1), n, t \div 2) \o <<t % 2>>

\* the integer the digits write
RECURSIVE int_of_bits(_)
int_of_bits(digits) ==
    IF digits = <<>> THEN 0 ELSE 2 * int_of_bits(SubSeq(digits, 1, Len(digits) - 1)) + digits[Len(digits)]

\* the number digits * 2^exp, or one just above it when `inexact`, rounded to
\* `precision` significant digits: to the nearest, and to the even one of two
\* equally near
round_half_even(digits, exp, inexact, precision) ==
    LET ones == {i \in 1..Len(digits) : digits[i] = 1}
        b == IF ones = {} THEN <<>>
             ELSE SubSeq(digits, CHOOSE i \in ones : \A l \in ones : i <= l, Len(digits))
        up == /\ b[precision + 1] = 1
              /\ \/ inexact
                 \/ b[precision] = 1
                 \/ \E i \in (precision + 2)..Len(b) : b[i] = 1
    IN IF Len(b) <= precision THEN [bits |-> b, exp |-> exp]
       ELSE [bits |-> IF up THEN bits_times(SubSeq(b, 1, precision), 1, 1)
                      ELSE SubSeq(b, 1, precision),
             exp |-> exp + Len(b) - precision]

\* the binary digits of whole + rem / q (0 <= rem < q, whole written by the bits
\* acc) down to the place at which `need` significant digits are written:
\* [bits, exp] is that number cut there, and rem says what was cut off
RECURSIVE quotient_bits(_, _, _, _, _)
quotient_bits(rem, q, need, acc, places) ==
    IF \E i \in 1..Len(acc) : acc[i] = 1 /\ Len(acc) - i + 1 >= need
    THEN [bits |-> acc, exp |-> -places, rem |-> rem]
    ELSE quotient_bits((2 * rem) % q, q, need, Append(acc, (2 * rem) \div q), places + 1)

(***************************************************************************)
(* MissingValue.  columns is a list of column names, <<>> standing for     *)
(* None (and for []): `columns or df.columns` treats the two alike.  A     *)
(* rate is <<p, q>>, q > 0: the float nearest to p/q, which is what the    *)
(* literal of that fraction is (0.8 for <<4, 5>>).                         *)
(***************************************************************************)
\* columns or df.columns
columns_or(t, columns) == IF columns = <<>> THEN columns_of(t) ELSE columns

StatMethods == {"mean", "median", "mode"}

\* MissingValue.remove_missing_columns.  min_non_missing is computed in floats:
\* 1 - max_missing_rate is rounded, its product with the row count is rounded,
\* and int() cuts the fraction of the product off.
remove_missing_columns(t, columns, rate) ==
    LET nearest(q) == round_half_even(q.bits, q.exp, q.rem # 0, 53)
        max_missing_rate == nearest(quotient_bits(rate[1], rate[2], 55, <<>>, 0))
        \* 1 - x, for 0 < x < 1: x's bits on all the places after the point,
        \* turned over, and 1 added in the last place
        one_minus(x) ==
            round_half_even(
                bits_times([i \in 1..(-x.exp) |->
                               IF i <= -x.exp - Len(x.bits) THEN 1
                               ELSE 1 - x.bits[i - (-x.exp - Len(x.bits))]], 1, 1),
                x.exp, FALSE, 53)
        times(n, x) == round_half_even(bits_times(x.bits, n, 0), x.exp, FALSE, 53)
        int(x) == IF x.exp >= 0 THEN int_of_bits(x.bits) * 2^(x.exp)
                  ELSE IF Len(x.bits) + x.exp <= 0 THEN 0
                  ELSE int_of_bits(SubSeq(x.bits, 1, Len(x.bits) + x.exp))
        min_non_missing ==
            IF rate[1] = 0 THEN t.n ELSE int(times(t.n, one_minus(max_missing_rate)))
    IN IF ~(0 <= rate[1] /\ rate[1] <= rate[2]) THEN Raised("ValueError")
       ELSE IF rate[1] = rate[2] THEN Returned(t)
       ELSE dropna_axis1(t, min_non_missing, columns_or(t, columns))

\* MissingValue.fill_na_by_statistics
fill_na_by_statistics(t, columns, method) ==
    IF method \notin StatMethods THEN Raised("ValueError")
    ELSE IF method = "median" THEN Returned(fillna_series(t, "median"))
    ELSE IF method = "mode" THEN Returned(fillna_mode(t))
    ELSE Returned(fillna_series(t, "mean"))

\* MissingValue.fill_na_by_rolling: df.rolling(...) is a Rolling object, which has
\* no transform attribute, so evaluating the argument of fillna raises
fill_na_by_rolling(t, columns, method) ==
    IF method \notin StatMethods THEN Raised("ValueError")
    ELSE Raised("AttributeError")

\* MissingValue.fill_na_by_group, by one key column outside columns: groupby's
\* transform knows 'mean' and 'median' and raises ValueError for 'mode'
fill_na_by_group(t, columns, by, method) ==
    IF method \notin StatMethods THEN Raised("ValueError")
    ELSE IF method = "mode" THEN Raised("ValueError")
    ELSE Returned(fillna_frame(select_columns(t, columns_or(t, columns)),
                               groupby_transform(t, by, columns_or(t, columns), method)))

\* MissingValue.fill_na_by_custom_value, with a number for value
fill_na_by_custom_value(t, columns, value) == Returned(fillna_value(t, value))

\* MissingValue.fill_na_forward_or_backward
fill_na_forward_or_backward(t, columns, method) ==
    IF method \notin {"ffill", "bfill"} THEN Raised("ValueError")
    ELSE Returned(fillna_method(t, method))

\* MissingValue.fill_na_by_interpolate; scipy: whether scipy can be imported
fill_na_by_interpolate(t, columns, method, scipy) ==
    IF method \notin {"linear", "quadratic", "cubic"} THEN Raised("ValueError")
    ELSE interpolate(t, method, scipy)

(***************************************************************************)
(* FeatureSelection.                                                       *)
(***************************************************************************)
\* data[names]: KeyError for a name that is no column; the named columns in the
\* order given otherwise
select_columns_by_name(data, names) ==
    IF \E i \in 1..Len(names) : names[i] \notin names_of(data) THEN Raised("KeyError")
    ELSE Returned(select_columns(data, names))

\* data.select_dtypes(include=[dtype]), dtype given by its name.  'int' and
\* 'float' stand for two widths each; 'number' for every numeric dtype, and
\* timedelta64 is one to numpy; 'datetime' and 'timedelta' are the 64-bit
\* dtypes of those names; 'datetimetz' is the datetimes with a time zone, which
\* no column has here; another dtype's name stands for itself.  TypeError for
\* 'str' (string dtypes are refused) and for a name that is no dtype, of which
\* 'bool8x' is the one held here.  The columns of the dtypes included are
\* returned, and they may be none.
select_columns_by_type(data, dtype) ==
    LET NumericDtypes == IntDtypes \cup {"float16", "float32", "float64"}
        include ==
            CASE dtype = "int"    -> {"int32", "int64"}
              [] dtype = "float"  -> {"float64", "float32"}
              [] dtype = "number" -> NumericDtypes \cup {"timedelta64[ns]"}
              [] dtype \in {"datetime", "datetime64", "datetime64[ns]"} -> {"datetime64[ns]"}
              [] dtype \in {"timedelta", "timedelta64", "timedelta64[ns]"} -> {"timedelta64[ns]"}
              [] dtype = "datetimetz" -> {}
              [] dtype \in NumericDtypes \cup {"object", "bool", "category"} -> {dtype}
    IN IF dtype \in {"str", "bool8x"} THEN Raised("TypeError")
       ELSE Returned(loc_columns(data, [j \in 1..Len(data.cols) |-> data.cols[j].dtype \in include]))

\* data.loc[:, condition(data)]: mask is what the caller's condition returns for
\* data, one boolean per column
select_columns_by_condition(data, mask) == Returned(loc_columns(data, mask))

(***************************************************************************)
(* DataProcess: the shape operations.                                      *)
(***************************************************************************)
\* Series.nunique(): the number of distinct non-missing values
nunique(values) == Cardinality(SeqToSet(dropna_values(values)))

\* The mutant of remove_constant_or_unique_columns: only constant columns go.
remove_constant_columns_only(t) ==
    Returned(loc_columns(t, [j \in 1..Len(t.cols) |-> nunique(t.cols[j].values) # 1]))

\* DataProcess.remove_constant_or_unique_columns
remove_constant_or_unique_columns(t) ==
    Returned(loc_columns(t,
        [j \in 1..Len(t.cols) |-> nunique(t.cols[j].values) \notin {1, t.n}]))

\* the cells of row i in the named columns
row_key(t, columns, i) == [j \in 1..Len(columns) |-> col(t, columns[j]).values[i]]

\* df.duplicated(subset=columns), keep='first': row i repeats an earlier row
\* on the columns (two missing cells count as equal)
duplicated(t, columns, i) ==
    \E l \in 1..(i - 1) : row_key(t, columns, l) = row_key(t, columns, i)

\* df.drop_duplicates(subset=columns): the rows that repeat no earlier row, with
\* the labels they had
drop_duplicates(t, columns) ==
    take_rows(t, SelectIdx([i \in 1..t.n |-> i],
                           [i \in 1..t.n |-> ~duplicated(t, columns, i)], 1))

\* np.result_type(d1, d2) for two numeric dtypes (integers and floats): the
\* wider of two of a kind; for a signed and an unsigned integer, the signed one
\* when it is the wider, else the signed one of twice the unsigned width, and
\* float64 past 64 bits; for an integer and a float, the float when the integer
\* has at most 16 bits, else float64
result_type(d1, d2) ==
    LET wider(a, b) == IF bits(a) >= bits(b) THEN a ELSE b
        mixed(s, u) ==
            IF bits(u) < bits(s) THEN s
            ELSE IF bits(u) = 64 THEN "float64"
            ELSE SignedTypes[CHOOSE i \in 1..4 : bits(SignedTypes[i]) = 2 * bits(u)]
        int_float(i, f) == IF bits(i) <= 16 THEN f ELSE "float64"
    IN IF kind(d1) = kind(d2) THEN wider(d1, d2)
       ELSE IF kind(d1) = "f" THEN int_float(d2, d1)
       ELSE IF kind(d2) = "f" THEN int_float(d1, d2)
       ELSE IF kind(d1) = "i" THEN mixed(d1, d2)
       ELSE mixed(d2, d1)

\* ensure_dtype_can_hold_na(dtype): the dtype of a column that gets a missing
\* cell.  An integer column becomes float64 and a bool column object; the others
\* hold a missing cell as they are.
ensure_dtype_can_hold_na(dtype) ==
    CASE kind(dtype) \in {"i", "u"} -> "float64"
      [] kind(dtype) = "b" -> "object"
      [] kind(dtype) \in {"f", "M", "O"} -> dtype

\* pd.concat([df1, df2], axis=0, join='outer', ignore_index=True): df1's columns,
\* then those only df2 has; each column is df1's cells followed by df2's, and
\* missing cells where the side has no such column; the rows are labelled afresh
concat_columns(df1, df2) ==
    columns_of(df1) \o
    SelectIdx(columns_of(df2), [j \in 1..Len(df2.cols) |-> df2.cols[j].name \notin names_of(df1)], 1)

\* the dtype of a concatenated column.
\*   A column one side lacks: the dtype it has, made to hold a missing cell.
\*   Two parts of one dtype: that dtype.
\*   Two parts of two numeric dtypes: numpy's common dtype of the two.
\*   Two parts of two dtypes, not both numeric: object.
\* Not held here: a bool part with a part of another dtype, two category parts,
\* and two parts of two dtypes one of which is float, object or datetime64 and
\* has no row or missing cells only, where pandas 2 decides by the block of
\* columns the part lies in.
concat_dtype(df1, df2, name) ==
    LET d1 == col(df1, name).dtype
        d2 == col(df2, name).dtype
        all_na(c) == kind(c.dtype) \in {"f", "M", "O"} /\ \A i \in 1..Len(c.values) : isna(c.values[i])
    IN IF name \notin names_of(df2) THEN ensure_dtype_can_hold_na(d1)
       ELSE IF name \notin names_of(df1) THEN ensure_dtype_can_hold_na(d2)
       ELSE CASE d1 = d2 /\ d1 # "category" -> d1
              [] /\ d1 # d2
                 /\ "b" \notin {kind(d1), kind(d2)}
                 /\ ~all_na(col(df1, name))
                 /\ ~all_na(col(df2, name)) ->
                   IF {kind(d1), kind(d2)} \subseteq {"i", "u", "f"} THEN result_type(d1, d2)
                   ELSE "object"

\* the cells of the column in one side: its cells, or as many missing cells as
\* the side has rows, NaT in a datetime64 column and NaN in another
cells_or_nan(t, name, dtype) ==
    IF name \in names_of(t) THEN col(t, name).values
    ELSE [i \in 1..t.n |-> IF kind(dtype) = "M" THEN NaT ELSE NaN]

\* The mutant of concat: the columns df1 and df2 share only (join='inner').
concat_inner(df1, df2) ==
    LET names == SelectIdx(columns_of(df1),
                           [j \in 1..Len(df1.cols) |-> df1.cols[j].name \in names_of(df2)], 1)
        column(name, dtype) ==
            Column(name, dtype, cells_or_nan(df1, name, dtype) \o cells_or_nan(df2, name, dtype))
    IN DataFrame(RangeIndex(df1.n + df2.n),
           [j \in 1..Len(names) |-> column(names[j], concat_dtype(df1, df2, names[j]))])

concat(df1, df2) ==
    LET names == concat_columns(df1, df2)
        column(name, dtype) ==
            Column(name, dtype, cells_or_nan(df1, name, dtype) \o cells_or_nan(df2, name, dtype))
    IN DataFrame(RangeIndex(df1.n + df2.n),
           [j \in 1..Len(names) |-> column(names[j], concat_dtype(df1, df2, names[j]))])

(***************************************************************************)
(* pd.merge(df1, df2, on=on, how=how), as pandas 2.2 documents and does    *)
(* it: a row of the result is a pair <<i, j>> of a row of df1 and a row of *)
(* df2 that agree on the key columns (two missing keys agree), 0 standing  *)
(* for no row of that side.                                                *)
(*   inner: the pairs, in the order of df1's rows, then of df2's;          *)
(*   left:  the same, with <<i, 0>> for a row of df1 that has no partner;  *)
(*   right: in the order of df2's rows, then of df1's, <<0, j>> likewise;  *)
(*   outer: key by key in ascending order (missing last), for each key its *)
(*          pairs, or its rows of df1 alone, or its rows of df2 alone.     *)
(***************************************************************************)
\* the first occurrence of each element of s, in order
RECURSIVE Dedup(_)
Dedup(s) ==
    IF s = <<>> THEN <<>>
    ELSE LET front == Dedup(SubSeq(s, 1, Len(s) - 1))
         IN IF s[Len(s)] \in SeqToSet(front) THEN front ELSE Append(front, s[Len(s)])

\* the keys of a set in ascending order, column by column: numbers ascending,
\* missing last
RECURSIVE SortKeys(_)
SortKeys(S) ==
    IF S = {} THEN <<>>
    ELSE LET CellLess(x, y) == ~isna(x) /\ (isna(y) \/ NumLess(x, y))
             KeyLess(a, b) ==
                 \E p \in 1..Len(a) :
                     /\ \A q \in 1..(p - 1) : a[q] = b[q]
                     /\ CellLess(a[p], b[p])
             m == CHOOSE x \in S : \A y \in S : ~KeyLess(y, x)
         IN <<m>> \o SortKeys(S \ {m})

merge_rows(df1, df2, on, how) ==
    LET \* the rows of t whose key is key, in order
        rows_with_key(t, key) ==
            SelectIdx([i \in 1..t.n |-> i], [i \in 1..t.n |-> row_key(t, on, i) = key], 1)
        \* the pairs of one row of df1 with its partners, of one row of df2 with
        \* its partners, and of one key
        pairs_of_left(i, keep) ==
            LET js == rows_with_key(df2, row_key(df1, on, i))
            IN IF js = <<>> THEN (IF keep THEN << <<i, 0>> >> ELSE <<>>)
               ELSE [m \in 1..Len(js) |-> <<i, js[m]>>]
        pairs_of_right(j) ==
            LET is == rows_with_key(df1, row_key(df2, on, j))
            IN IF is = <<>> THEN << <<0, j>> >>
               ELSE [m \in 1..Len(is) |-> <<is[m], j>>]
        pairs_of_key(key) ==
            LET is == rows_with_key(df1, key)
                js == rows_with_key(df2, key)
            IN IF js = <<>> THEN [m \in 1..Len(is) |-> <<is[m], 0>>]
               ELSE IF is = <<>> THEN [m \in 1..Len(js) |-> <<0, js[m]>>]
               ELSE Flatten([m \in 1..Len(is) |-> [l \in 1..Len(js) |-> <<is[m], js[l]>>]])
    IN CASE how = "inner" -> Flatten([i \in 1..df1.n |-> pairs_of_left(i, FALSE)])
         [] how = "left"  -> Flatten([i \in 1..df1.n |-> pairs_of_left(i, TRUE)])
         [] how = "right" -> Flatten([j \in 1..df2.n |-> pairs_of_right(j)])
         [] how = "outer" ->
              LET keys == SortKeys({row_key(df1, on, i) : i \in 1..df1.n}
                                   \cup {row_key(df2, on, j) : j \in 1..df2.n})
              IN Flatten([m \in 1..Len(keys) |-> pairs_of_key(keys[m])])

\* pd.merge(df1, df2, on=on, how=how): MergeError for 'cross' given `on`;
\* KeyError for a key that is not a column of both; for a `how` that is no join,
\* an exception whose class is not the same in every version of pandas
\* (KeyError, UnboundLocalError, ValueError), held as "Exception".  The result
\* has df1's columns, then df2's columns that are no keys, and its rows are
\* labelled afresh.
\*   A key column takes df2's key where there is no row of df1.
\*   Another column that both have is renamed c_x (df1's) and c_y (df2's).
\*   A column that gets a missing cell (NaT in a datetime64 column, NaN in
\*     another) has its dtype made to hold it.
\*   The two columns of a key are of one dtype here.
merge(df1, df2, on, how) ==
    IF how = "cross" THEN Raised("MergeError")
    ELSE IF \E p \in 1..Len(on) : on[p] \notin names_of(df1) \/ on[p] \notin names_of(df2)
    THEN Raised("KeyError")
    ELSE IF how \notin {"inner", "left", "right", "outer"} THEN Raised("Exception")
    ELSE LET rows == merge_rows(df1, df2, on, how)
             others == SelectIdx(df2.cols,
                           [j \in 1..Len(df2.cols) |-> df2.cols[j].name \notin SeqToSet(on)], 1)
             merge_dtype(dtype, padded) ==
                 IF padded THEN ensure_dtype_can_hold_na(dtype) ELSE dtype
             na(dtype) == IF kind(dtype) = "M" THEN NaT ELSE NaN
             merge_left_column(c) ==
                 IF c.name \in SeqToSet(on)
                 THEN Column(c.name, CASE c.dtype = col(df2, c.name).dtype -> c.dtype,
                             [p \in 1..Len(rows) |->
                                 IF rows[p][1] # 0 THEN c.values[rows[p][1]]
                                 ELSE col(df2, c.name).values[rows[p][2]]])
                 ELSE Column(IF c.name \in names_of(df2) THEN c.name \o "_x" ELSE c.name,
                             merge_dtype(c.dtype, \E p \in 1..Len(rows) : rows[p][1] = 0),
                             [p \in 1..Len(rows) |->
                                 IF rows[p][1] # 0 THEN c.values[rows[p][1]] ELSE na(c.dtype)])
             merge_right_column(c) ==
                 Column(IF c.name \in names_of(df1) THEN c.name \o "_y" ELSE c.name,
                        merge_dtype(c.dtype, \E p \in 1..Len(rows) : rows[p][2] = 0),
                        [p \in 1..Len(rows) |->
                            IF rows[p][2] # 0 THEN c.values[rows[p][2]] ELSE na(c.dtype)])
         IN Returned(DataFrame(RangeIndex(Len(rows)),
                [j \in 1..Len(df1.cols) |-> merge_left_column(df1.cols[j])]
                \o [j \in 1..Len(others) |-> merge_right_column(others[j])]))

\* The mutant of combine_dataframes: a horizontal call without `on` and an unknown
\* direction fall back to stacking the rows instead of being rejected.
combine_dataframes_fallback(df1, df2, on, how, direction) ==
    IF direction = "horizontal" /\ on # <<>> THEN merge(df1, df2, on, how)
    ELSE Returned(concat(df1, df2))

\* DataProcess.combine_dataframes; on is a list of names, <<>> for None and []
combine_dataframes(df1, df2, on, how, direction) ==
    IF direction = "horizontal"
    THEN IF on # <<>> THEN merge(df1, df2, on, how)
         ELSE Raised("ValueError")
    ELSE IF direction = "vertical" THEN Returned(concat(df1, df2))
    ELSE Raised("ValueError")

(***************************************************************************)
(* The calls on the caller's DataFrame.  The DataFrame has the columns     *)
(* "a" and "b", or "a" alone, of float64 cells, and at most MaxRows rows;  *)
(* or the one column "a" of four rows, the fewest in which a quadratic     *)
(* spline has a missing cell to fill.  Its rows are labelled 0..n-1, or by *)
(* strings, of which "a" is also the name of a column; the DataFrame of    *)
(* RateRows rows has the one column "a" and every row labelled "a".        *)
(***************************************************************************)
FramesOver(names, rows, cells) ==
    { DataFrame(RangeIndex(n), [j \in 1..k |-> Column(names[j], "float64", vs[j])]) :
        <<n, k, vs>> \in UNION { {<<n, k, vs>> : vs \in [1..k -> [1..n -> cells]]} :
                                 <<n, k>> \in rows \X (1..Len(names)) } }

\* lists of distinct names
ListsOf(names) ==
    { l \in SeqsOver(names, Cardinality(names)) : \A i, j \in 1..Len(l) : i # j => l[i] # l[j] }

\* a list of the DataFrame's columns, or <<>> for None
ColumnArgs(t) == ListsOf(names_of(t))

Init ==
    LET \* the DataFrames with their rows labelled by one of the lists
        Relabelled(frames, labels) ==
            { DataFrame(x[2], x[1].cols) :
                x \in { y \in frames \X labels : Len(y[2]) = y[1].n } }
    IN
    /\ \/ df \in FramesOver(<<"a", "b">>, 1..MaxRows, {NaN, Num(1, 1), Num(2, 1)})
                  \cup FramesOver(<<"a">>, {4}, {NaN, Num(1, 1), Num(2, 1)})
       \/ df \in Relabelled(FramesOver(<<"a", "b">>, {1, 2}, {NaN, Num(1, 1)}),
                             { <<"a">>, <<"x">>, <<"a", "b">>, <<"b", "a">>, <<"a", "x">> })
                  \cup Relabelled(FramesOver(<<"a">>, {RateRows}, {NaN, Num(1, 1)}),
                                  { [i \in 1..RateRows |-> "a"] })
    /\ series = NoSeries
    /\ call = NoCall
    /\ ret = NoReturn

\* the caller holds no pending result and makes its next call
Ready == call.op = "init"

\* the caller is done with the result of its last call
Discard ==
    /\ ~Ready
    /\ call' = NoCall
    /\ ret' = NoReturn
    /\ UNCHANGED <<df, series>>

SelectColumnsByName ==
    /\ Ready
    /\ \E names \in ListsOf(names_of(df) \cup {"zz"}) :
        /\ call' = [op |-> "select_columns_by_name", names |-> names]
        /\ ret' = select_columns_by_name(df, names)
        /\ UNCHANGED <<df, series>>

SelectColumnsByType ==
    /\ Ready
    /\ \E dtype \in {"float", "int", "number", "float64", "object", "bool", "datetime",
                      "category", "str", "bool8x"} :
        /\ call' = [op |-> "select_columns_by_type", dtype |-> dtype]
        /\ ret' = select_columns_by_type(df, dtype)
        /\ UNCHANGED <<df, series>>

SelectColumnsByCondition ==
    /\ Ready
    /\ \E mask \in [1..Len(df.cols) -> BOOLEAN] :
        /\ call' = [op |-> "select_columns_by_condition", mask |-> mask]
        /\ ret' = select_columns_by_condition(df, mask)
        /\ UNCHANGED <<df, series>>

RemoveMissingColumns ==
    /\ Ready
    /\ \E columns \in ColumnArgs(df),
          rate \in { <<-1, 4>>, <<0, 1>>, <<1, 4>>, <<1, 2>>, <<3, 4>>, <<4, 5>>, <<1, 1>>,
                     <<5, 4>> } :
        /\ call' = [op |-> "remove_missing_columns", columns |-> columns, rate |-> rate]
        /\ ret' = remove_missing_columns(df, columns, rate)
        /\ UNCHANGED <<df, series>>

FillNaByStatistics ==
    /\ Ready
    /\ \E columns \in ColumnArgs(df), method \in StatMethods \cup {"max"} :
        /\ call' = [op |-> "fill_na_by_statistics", columns |-> columns, method |-> method]
        /\ ret' = fill_na_by_statistics(df, columns, method)
        /\ UNCHANGED <<df, series>>

FillNaByRolling ==
    /\ Ready
    /\ \E columns \in ColumnArgs(df), method \in StatMethods \cup {"max"} :
        /\ call' = [op |-> "fill_na_by_rolling", columns |-> columns, method |-> method]
        /\ ret' = fill_na_by_rolling(df, columns, method)
        /\ UNCHANGED <<df, series>>

FillNaByGroup ==
    /\ Ready
    /\ \E columns \in ColumnArgs(df) \ {<<>>}, by \in names_of(df), method \in StatMethods \cup {"max"} :
        /\ by \notin SeqToSet(columns)
        /\ call' = [op |-> "fill_na_by_group", columns |-> columns, by |-> by, method |-> method]
        /\ ret' = fill_na_by_group(df, columns, by, method)
        /\ UNCHANGED <<df, series>>

FillNaByCustomValue ==
    /\ Ready
    /\ \E columns \in ColumnArgs(df), value \in {Num(0, 1)} :
        /\ call' = [op |-> "fill_na_by_custom_value", columns |-> columns, value |-> value]
        /\ ret' = fill_na_by_custom_value(df, columns, value)
        /\ UNCHANGED <<df, series>>

FillNaForwardOrBackward ==
    /\ Ready
    /\ \E columns \in ColumnArgs(df), method \in {"ffill", "bfill", "forward"} :
        /\ call' = [op |-> "fill_na_forward_or_backward", columns |-> columns, method |-> method]
        /\ ret' = fill_na_forward_or_backward(df, columns, method)
        /\ UNCHANGED <<df, series>>

\* scipy is asked for by the two spline methods only
FillNaByInterpolate ==
    /\ Ready
    /\ \E columns \in ColumnArgs(df), method \in {"linear", "quadratic", "cubic", "nearest"},
          scipy \in BOOLEAN :
        /\ method \in {"linear", "nearest"} => scipy
        /\ call' = [op |-> "fill_na_by_interpolate", columns |-> columns, method |-> method,
                    scipy |-> scipy]
        /\ ret' = fill_na_by_interpolate(df, columns, method, scipy)
        /\ UNCHANGED <<df, series>>

RemoveConstantOrUniqueColumns ==
    /\ Ready
    /\ call' = [op |-> "remove_constant_or_unique_columns"]
    /\ ret' = remove_constant_or_unique_columns(df)
    /\ UNCHANGED <<df, series>>

\* DataProcess.remove_duplicate_rows_by_columns: drop_duplicates(inplace=True)
\* changes df itself and returns None, which is what the function returns
RemoveDuplicateRowsByColumns ==
    /\ Ready
    /\ \E columns \in ColumnArgs(df) \ {<<>>} :
        /\ call' = [op |-> "remove_duplicate_rows_by_columns", columns |-> columns, df |-> df]
        /\ df' = drop_duplicates(df, columns)
        /\ ret' = ReturnedNone
        /\ UNCHANGED series

\* df2 has the columns "b" and "c", or "b" alone, of float64 cells, or "c" is a
\* datetime64[ns], an int8, a float32 or an object column of one row, or "b" is
\* alone, an int8 or a float32 column of one row; the joins of a horizontal call
\* are every `how` on the key "b", and the key "a", which df2 has not.  A "b"
\* that is not of float64 is stacked only, under a "b" that has a cell that is
\* not missing.
CombineDataframes ==
    /\ Ready
    /\ \E df2 \in FramesOver(<<"b", "c">>, {1, 2}, {NaN, Num(1, 1)})
                   \cup { DataFrame(RangeIndex(1),
                                    <<Column("b", "float64", <<Num(1, 1)>>), c>>) :
                            c \in { Column("c", "datetime64[ns]", <<Timestamp(0)>>),
                                    Column("c", "int8", <<Num(1, 1)>>),
                                    Column("c", "float32", <<Num(3, 2)>>),
                                    Column("c", "object", <<Str(<<120>>)>>) } }
                   \cup { DataFrame(RangeIndex(1), <<b>>) :
                            b \in { Column("b", "int8", <<Num(1, 1)>>),
                                    Column("b", "float32", <<Num(3, 2)>>) } },
          on \in {<<>>, <<"b">>, <<"a">>},
          how \in {"outer", "inner", "left", "right", "cross", "sideways"},
          direction \in {"horizontal", "vertical", "diagonal"} :
        /\ (direction # "horizontal" \/ on # <<"b">>) => how = "outer"
        /\ direction # "horizontal" => on = <<>>
        /\ col(df2, "b").dtype # "float64" =>
               /\ direction = "vertical"
               /\ "b" \in names_of(df) => \E i \in 1..df.n : ~isna(col(df, "b").values[i])
        /\ call' = [op |-> "combine_dataframes", df2 |-> df2, on |-> on,
                    how |-> how, direction |-> direction]
        /\ ret' = combine_dataframes(df, df2, on, how, direction)
        /\ UNCHANGED <<df, series>>

Next ==
    \/ SelectColumnsByName
    \/ SelectColumnsByType
    \/ SelectColumnsByCondition
    \/ RemoveMissingColumns
    \/ FillNaByStatistics
    \/ FillNaByRolling
    \/ FillNaByGroup
    \/ FillNaByCustomValue
    \/ FillNaForwardOrBackward
    \/ FillNaByInterpolate
    \/ RemoveConstantOrUniqueColumns
    \/ RemoveDuplicateRowsByColumns
    \/ CombineDataframes
    \/ Discard

Spec == Init /\ [][Next]_vars

(***************************************************************************)
(* DataProcess.infer_numeric_dtype on the caller's Series.                 *)
(***************************************************************************)
InitInfer ==
    /\ df = EmptyFrame
    /\ \/ series \in ValidSeries
       \/ series \in FloatSeries
       \/ series \in ObjectSeries
    /\ call = NoCall
    /\ ret = NoReturn

InferNumericDtype ==
    /\ Ready
    /\ call' = [op |-> "infer_numeric_dtype"]
    /\ ret' = ReturnedDtype(infer_numeric_dtype(series))
    /\ UNCHANGED <<df, series>>

NextInfer ==
    \/ InferNumericDtype
    \/ Discard

SpecInfer == InitInfer /\ [][NextInfer]_vars

(***************************************************************************)
(* C6.  infer_numeric_dtype returns the smallest signed width.             *)
(***************************************************************************)
\* every value of the Series lies in the range of dtype t
Holds(s, t) == \A i \in 1..Len(s.values) : InDtype(s.values[i], t)

\* t is the smallest of int8, int16, int32, int64 that holds the Series
SmallestSignedWidth(s, t) ==
    \E i \in 1..4 :
        /\ t = SignedTypes[i]
        /\ Holds(s, t)
        /\ \A j \in 1..(i - 1) : ~Holds(s, SignedTypes[j])

\* the call was infer_numeric_dtype on a non-empty Series of integer kind
InferredIntegerSeries ==
    /\ call.op = "infer_numeric_dtype"
    /\ kind(series.dtype) \in {"i", "u"}
    /\ series.values # <<>>

\* C6 as claimed: on any integer-kind Series, signed or unsigned, of any non-empty
\* set of values, infer_numeric_dtype returns the smallest signed width among 8,
\* 16, 32 and 64 bits whose range contains the minimum and the maximum.
C6_AnyIntegerSeries ==
    InferredIntegerSeries =>
        ret.kind = "dtype" /\ SmallestSignedWidth(series, ret.dtype)

\* C6 amended: the same for every integer-kind Series whose values are all at
\* most 2^63 - 1, the largest value a signed width holds.
C6_SmallestSignedWidth ==
    (InferredIntegerSeries /\ Holds(series, "int64")) =>
        ret.kind = "dtype" /\ SmallestSignedWidth(series, ret.dtype)

\* an unsigned Series whose minimum and maximum need 32 bits has been inferred
C6_Witness ==
    /\ InferredIntegerSeries
    /\ series.dtype = "uint16"
    /\ series.values = <<Small(0), Small(40000)>>
    /\ ret.dtype = "int32"

(***************************************************************************)
(* Claims about MissingValue and the shape operations (Spec).              *)
(***************************************************************************)
MissingValueOps ==
    { "remove_missing_columns", "fill_na_by_statistics", "fill_na_by_rolling",
      "fill_na_by_group", "fill_na_by_custom_value", "fill_na_forward_or_backward",
      "fill_na_by_interpolate" }

\* the call's configuration is outside what the operation accepts
ConfigError(c) ==
    \/ c.op \in {"fill_na_by_statistics", "fill_na_by_rolling", "fill_na_by_group"}
       /\ c.method \notin {"mean", "median", "mode"}
    \/ c.op = "fill_na_forward_or_backward" /\ c.method \notin {"ffill", "bfill"}
    \/ c.op = "fill_na_by_interpolate" /\ c.method \notin {"linear", "quadratic", "cubic"}
    \/ c.op = "combine_dataframes" /\ c.direction \notin {"horizontal", "vertical"}
    \/ c.op = "combine_dataframes" /\ c.direction = "horizontal" /\ c.on = <<>>
    \/ c.op = "remove_missing_columns" /\ ~(0 <= c.rate[1] /\ c.rate[1] <= c.rate[2])

\* the columns the call selects: the list given, or all of them for None
Selected(c) == IF c.columns = <<>> THEN names_of(df) ELSE SeqToSet(c.columns)

\* C1 as claimed: with 0 <= max_missing_rate <= 1, remove_missing_columns returns
\* a DataFrame in which a column of the selected subset is kept if and only if its
\* count of non-missing values is at least row_count * (1 - max_missing_rate).
C1_KeptIffEnoughNonMissing ==
    (call.op = "remove_missing_columns" /\ ~ConfigError(call)) =>
        /\ ret.kind = "DataFrame"
        /\ \A name \in Selected(call) :
               name \in names_of(ret.table) <=>
                   count(col(df, name).values) * call.rate[2]
                       >= df.n * (call.rate[2] - call.rate[1])

\* C2 as claimed: every MissingValue operation called with a non-empty column
\* subset (and a configuration it accepts) returns a DataFrame in which every
\* column outside the subset is present with every cell as it was.
C2_OutsideSubsetUntouched ==
    (call.op \in MissingValueOps /\ ~ConfigError(call) /\ call.columns # <<>>) =>
        /\ ret.kind = "DataFrame"
        /\ \A name \in names_of(df) \ SeqToSet(call.columns) :
               /\ name \in names_of(ret.table)
               /\ col(ret.table, name) = col(df, name)

\* the rows of t that repeat no earlier row of t on the columns, in order
FirstOccurrences(t, columns) ==
    SelectIdx([i \in 1..t.n |-> i],
              [i \in 1..t.n |->
                  \A l \in 1..(i - 1) :
                      \E name \in SeqToSet(columns) :
                          col(t, name).values[l] # col(t, name).values[i]], 1)

\* C3 as claimed: remove_duplicate_rows_by_columns returns the DataFrame of
\* exactly the rows that repeat no earlier row on the columns, in their order.
C3_ReturnsDeduplicated ==
    call.op = "remove_duplicate_rows_by_columns" =>
        /\ ret.kind = "DataFrame"
        /\ LET rows == FirstOccurrences(call.df, call.columns)
           IN /\ ret.table.n = Len(rows)
              /\ columns_of(ret.table) = columns_of(call.df)
              /\ \A j \in 1..Len(call.df.cols) : \A i \in 1..Len(rows) :
                     ret.table.cols[j].values[i] = call.df.cols[j].values[rows[i]]

\* C5: a call whose method or direction is outside its enumerated set, a
\* horizontal combine without `on`, and a max_missing_rate outside [0, 1] are
\* rejected with the configuration error (ValueError): the call returns no
\* DataFrame and leaves the caller's DataFrame as it was.
C5_ConfigErrorsRejected ==
    [][ConfigError(call') => (ret' = Raised("ValueError") /\ df' = df)]_vars

\* a horizontal combine without `on` has been rejected
C5_Witness ==
    /\ call.op = "combine_dataframes"
    /\ call.direction = "horizontal"
    /\ call.on = <<>>
    /\ ret = Raised("ValueError")

\* the number of distinct values of a column; a missing cell holds no value
DistinctValues(values) ==
    Cardinality({values[i] : i \in {l \in 1..Len(values) : values[l] # NaN}})

\* C8: remove_constant_or_unique_columns drops a column if and only if its count
\* of distinct values is exactly 1 or exactly the row count, and returns every
\* other column, in order, with its rows and values unchanged.
C8_DropsConstantOrUnique ==
    call.op = "remove_constant_or_unique_columns" =>
        /\ ret.kind = "DataFrame"
        /\ ret.table.index = df.index
        /\ \A j \in 1..Len(df.cols) :
               (df.cols[j].name \notin names_of(ret.table))
                   <=> DistinctValues(df.cols[j].values) \in {1, df.n}
        /\ \A j \in 1..Len(ret.table.cols) : ret.table.cols[j] \in SeqToSet(df.cols)
        /\ \A i, j \in 1..Len(ret.table.cols) :
               i < j => \E l, m \in 1..Len(df.cols) :
                            l < m /\ df.cols[l] = ret.table.cols[i] /\ df.cols[m] = ret.table.cols[j]

\* a constant column was dropped and a column of two repeated values was kept
C8_Witness ==
    /\ call.op = "remove_constant_or_unique_columns"
    /\ df.n = 3
    /\ col(df, "a").values = <<Num(1, 1), Num(1, 1), Num(1, 1)>>
    /\ Len(df.cols) = 2
    /\ col(df, "b").values = <<Num(1, 1), Num(2, 1), Num(1, 1)>>
    /\ columns_of(ret.table) = <<"b">>

\* C9: a vertical combine returns a DataFrame of rows(df1) + rows(df2) rows,
\* labelled 0..n-1, whose columns are the union of the two column sets, whose rows
\* are df1's rows followed by df2's, each row missing in every column its source
\* lacks; every column has as many cells as there are rows.
C9_VerticalCombine ==
    (call.op = "combine_dataframes" /\ call.direction = "vertical") =>
        /\ ret.kind = "DataFrame"
        /\ ret.table.n = df.n + call.df2.n
        /\ ret.table.index = [i \in 1..(df.n + call.df2.n) |-> i - 1]
        /\ names_of(ret.table) = names_of(df) \cup names_of(call.df2)
        /\ Len(ret.table.cols) = Cardinality(names_of(ret.table))
        /\ \A j \in 1..Len(ret.table.cols) :
               LET c == ret.table.cols[j]
               IN /\ Len(c.values) = ret.table.n
                  /\ \A i \in 1..df.n :
                         IF c.name \in names_of(df)
                         THEN c.values[i] = col(df, c.name).values[i]
                         ELSE isna(c.values[i])
                  /\ \A i \in 1..call.df2.n :
                         IF c.name \in names_of(call.df2)
                         THEN c.values[df.n + i] = col(call.df2, c.name).values[i]
                         ELSE isna(c.values[df.n + i])

\* columns {a, b} of 2 rows and {b, c} of 2 rows were stacked into {a, b, c} of 4
C9_Witness ==
    /\ call.op = "combine_dataframes"
    /\ call.direction = "vertical"
    /\ columns_of(df) = <<"a", "b">>
    /\ df.n = 2
    /\ columns_of(call.df2) = <<"b", "c">>
    /\ call.df2.n = 2
    /\ ret.kind = "DataFrame"
    /\ columns_of(ret.table) = <<"a", "b", "c">>
    /\ ret.table.n = 4
    /\ col(ret.table, "c").values[1] = NaN
    /\ col(ret.table, "a").values[3] = NaN

(***************************************************************************)
(* DataImport.  A path is the sequence of its characters.  What the        *)
(* network and the file system answer is the environment's choice.         *)
(***************************************************************************)
\* str.endswith(suffix)
endswith(path, suffix) ==
    /\ Len(path) >= Len(suffix)
    /\ SubSeq(path, Len(path) - Len(suffix) + 1, Len(path)) = suffix

\* `except Exception as e: print(...)` followed by `return None`
except_Exception(r) == IF r.kind = "raise" THEN ReturnedNone ELSE r

\* what pd.read_csv / pd.read_excel does with the file: read is the environment's
\* answer, a DataFrame or the exception raised (no such file, a parse error)
read_file(read) == IF read.ok THEN Returned(read.frame) ELSE Raised(read.exc)

\* the try block of import_file: endswith with the tuple of the Excel suffixes
\* holds for a path that ends with one of them; falling off the end of the
\* block is `return None`
import_file_try(path, read) ==
    LET excel == { <<".", "x", "l", "s">>, <<".", "x", "l", "s", "x">>,
                   <<".", "x", "l", "s", "m">>, <<".", "x", "l", "s", "b">>,
                   <<".", "o", "d", "f">>, <<".", "o", "d", "s">>, <<".", "o", "d", "t">> }
    IN IF endswith(path, <<".", "c", "s", "v">>) THEN read_file(read)
       ELSE IF \E suffix \in excel : endswith(path, suffix) THEN read_file(read)
       ELSE IF endswith(path, <<".", "t", "x", "t">>) THEN read_file(read)
       ELSE ReturnedNone

\* DataImport.import_file
import_file(path, read) == except_Exception(import_file_try(path, read))

\* Response.raise_for_status(): HTTPError for a 4xx or 5xx status
raise_for_status(status) == 400 <= status /\ status < 600

(***************************************************************************)
(* What response.json() returns: null, a boolean, a number, a string or an *)
(* array (held by their length), or an object, held as the list of its     *)
(* items in order.  The value of an item is a number or an object of       *)
(* numbers, held as the list of its fields.                                *)
(***************************************************************************)
Json(json, len, items) == [json |-> json, len |-> len, items |-> items]

\* DataFrame(_from_nested_dict(data)) for a dict of dicts: a column per field
\* name, in the order the names first appear; the rows are the keys that have
\* the first column, then those new with the second, and so on; NaN where a key
\* has no such field; no column at all leaves the empty DataFrame
nested_frame(items) ==
    LET has_field(item, name) == \E l \in 1..Len(item.fields) : item.fields[l].name = name
        field_or_nan(item, name) ==
            LET S == {l \in 1..Len(item.fields) : item.fields[l].name = name}
            IN IF S = {} THEN NaN ELSE Num(item.fields[CHOOSE l \in S : TRUE].num, 1)
        columns == Dedup(Flatten([i \in 1..Len(items) |->
                       [l \in 1..Len(items[i].fields) |-> items[i].fields[l].name]]))
        index == Dedup(Flatten([j \in 1..Len(columns) |->
                       SelectIdx([i \in 1..Len(items) |-> items[i].key],
                                 [i \in 1..Len(items) |-> has_field(items[i], columns[j])], 1)]))
        item_of(key) == items[CHOOSE i \in 1..Len(items) : items[i].key = key]
    IN DataFrame(index,
           [j \in 1..Len(columns) |->
               Column(columns[j],
                      IF \A i \in 1..Len(index) : has_field(item_of(index[i]), columns[j])
                      THEN "int64" ELSE "float64",
                      [i \in 1..Len(index) |-> field_or_nan(item_of(index[i]), columns[j])])])

\* DataFrame(list(data.values()), index=list(data.keys())) for a dict whose
\* first value is a number: the one column 0 of the values, a row per key
listed_frame(items) ==
    DataFrame([i \in 1..Len(items) |-> items[i].key],
        << Column(0,
                  IF \A i \in 1..Len(items) : items[i].json = "number" THEN "int64" ELSE "object",
                  [i \in 1..Len(items) |->
                      IF items[i].json = "number" THEN Num(items[i].num, 1) ELSE Obj]) >>)

\* pd.DataFrame.from_dict(data, orient="index"):
\*   len(data) is TypeError for null, a boolean and a number;
\*   data of length 0 goes to DataFrame(data) as it is: ValueError for '', the
\*     empty DataFrame for [] and {};
\*   data.values() is AttributeError for a non-empty string or array;
\*   a dict whose first value is a dict is turned inside out, s.items() being
\*     AttributeError for a value that is a number;
\*   any other dict becomes the list of its values, indexed by its keys.
from_dict_index(data) ==
    CASE data.json \in {"null", "boolean", "number"} -> Raised("TypeError")
      [] data.json = "string" ->
           IF data.len = 0 THEN Raised("ValueError") ELSE Raised("AttributeError")
      [] data.json = "array" ->
           IF data.len = 0 THEN Returned(EmptyFrame) ELSE Raised("AttributeError")
      [] OTHER ->
           IF data.items = <<>> THEN Returned(EmptyFrame)
           ELSE IF data.items[1].json = "object"
           THEN IF \E i \in 1..Len(data.items) : data.items[i].json # "object"
                THEN Raised("AttributeError")
                ELSE Returned(nested_frame(data.items))
           ELSE Returned(listed_frame(data.items))

\* the try block of imoprt_url: get is requests.get's answer, an exception or a
\* response with its status and its body, text that is no JSON (json() raises
\* JSONDecodeError, a ValueError) or a JSON value
imoprt_url_try(url, get) ==
    IF ~get.ok THEN Raised(get.exc)
    ELSE IF raise_for_status(get.status) THEN Raised("HTTPError")
    ELSE IF get.body.json = "malformed" THEN Raised("JSONDecodeError")
    ELSE from_dict_index(get.body)

\* DataImport.imoprt_url
imoprt_url(url, get) == except_Exception(imoprt_url_try(url, get))

\* the bodies of the responses: text that is no JSON, null, a boolean, a number,
\* a string and an array, empty and not, and the objects
\* {"x": {"a": 1}}, {"x": {"a": 1, "b": 2}, "y": {"a": 2, "b": 2}},
\* {"x": {"a": 1}, "y": {"b": 2}}, {"x": {}}, {"x": 1}, {"x": 1, "y": {"a": 1}},
\* {"x": {"a": 1}, "y": 2} and {}
Bodies ==
    LET Item(key, json, num, fields) ==
            [key |-> key, json |-> json, num |-> num, fields |-> fields]
        Field(name, num) == [name |-> name, num |-> num]
        objects ==
            { <<Item("x", "object", 0, <<Field("a", 1)>>)>>,
              <<Item("x", "object", 0, <<Field("a", 1), Field("b", 2)>>),
                Item("y", "object", 0, <<Field("a", 2), Field("b", 2)>>)>>,
              <<Item("x", "object", 0, <<Field("a", 1)>>),
                Item("y", "object", 0, <<Field("b", 2)>>)>>,
              <<Item("x", "object", 0, <<>>)>>,
              <<Item("x", "number", 1, <<>>)>>,
              <<Item("x", "number", 1, <<>>), Item("y", "object", 0, <<Field("a", 1)>>)>>,
              <<Item("x", "object", 0, <<Field("a", 1)>>), Item("y", "number", 2, <<>>)>>,
              <<>> }
    IN { Json(j, n, <<>>) : j \in {"malformed", "null", "boolean", "number"}, n \in {0} }
       \cup { Json(j, n, <<>>) : j \in {"string", "array"}, n \in {0, 2} }
       \cup { Json("object", Len(items), items) : items \in objects }

InitImport ==
    /\ df = EmptyFrame
    /\ series = NoSeries
    /\ call = NoCall
    /\ ret = NoReturn

\* requests.get sends nothing for a url without a scheme: MissingSchema
ImoprtUrl ==
    /\ Ready
    /\ \E url \in {"http://h/data.json", "h/data.json"},
          get \in { [ok |-> FALSE, exc |-> e, status |-> 0, body |-> Json("malformed", 0, <<>>)] :
                      e \in {"ConnectionError", "Timeout", "MissingSchema"} }
                  \cup { [ok |-> TRUE, exc |-> "", status |-> st, body |-> b] :
                           st \in {200, 204, 300, 404, 500}, b \in Bodies } :
        /\ url = "h/data.json" <=> get.exc = "MissingSchema"
        /\ call' = [op |-> "imoprt_url", url |-> url, get |-> get]
        /\ ret' = imoprt_url(url, get)
        /\ UNCHANGED <<df, series>>

ImportFile ==
    /\ Ready
    /\ \E path \in
            { <<"d", ".", "c", "s", "v">>, <<"d", ".", "x", "l", "s">>, <<"d", ".", "x", "l", "s", "x">>,
              <<"d", ".", "o", "d", "s">>, <<"d", ".", "t", "x", "t">>, <<"d", ".", "j", "s", "o", "n">>,
              <<"d", ".", "C", "S", "V">>, <<"c", "s", "v">>, <<"d", ".", "c", "s", "v", ".", "g", "z">>,
              <<"d">> },
          read \in { [ok |-> FALSE, exc |-> e, frame |-> EmptyFrame] :
                       e \in {"FileNotFoundError", "PermissionError", "ParserError",
                              "UnicodeDecodeError"} }
                   \cup { [ok |-> TRUE, exc |-> "", frame |-> f] :
                            f \in FramesOver(<<"a">>, {1, 2}, {NaN, Num(1, 1)}) } :
        /\ call' = [op |-> "import_file", path |-> path, read |-> read]
        /\ ret' = import_file(path, read)
        /\ UNCHANGED <<df, series>>

NextImport ==
    \/ ImoprtUrl
    \/ ImportFile
    \/ Discard

SpecImport == InitImport /\ [][NextImport]_vars

(***************************************************************************)
(* C10.  The Importer gives back a DataFrame or None, never an exception.  *)
(***************************************************************************)
\* the extensions the Importer dispatches on
KnownExtensions ==
    { <<".", "c", "s", "v">>, <<".", "t", "x", "t">>,
      <<".", "x", "l", "s">>, <<".", "x", "l", "s", "x">>, <<".", "x", "l", "s", "m">>,
      <<".", "x", "l", "s", "b">>, <<".", "o", "d", "f">>, <<".", "o", "d", "s">>,
      <<".", "o", "d", "t">> }

HasKnownExtension(path) ==
    \E e \in KnownExtensions :
        \E k \in 0..Len(path) : path = SubSeq(path, 1, k) \o e

\* the statuses that are no success: every status but a 2xx
NonSuccessStatuses == (100..599) \ (200..299)

\* the fetch of the call failed: no response, a status that is no success, or a
\* body that is no JSON
FetchFailed(c) ==
    \/ ~c.get.ok
    \/ c.get.status \in NonSuccessStatuses
    \/ c.get.body.json = "malformed"

\* the read of the call failed: the file is unreadable or cannot be parsed, or
\* its extension is not recognized
FileFailed(c) == ~c.read.ok \/ ~HasKnownExtension(c.path)

\* C10 as claimed: no call of the Importer raises; a network failure, a
\* non-success (non-2xx) status, malformed JSON, an unreadable file, a parse error
\* and an unrecognized extension all end in None; a DataFrame is returned only
\* when the fetch or read and the parse succeeded, and a file's DataFrame is the
\* one read.
C10_NonSuccessStatusIsNone ==
    /\ call.op = "imoprt_url" =>
           /\ ret.kind \in {"DataFrame", "None"}
           /\ FetchFailed(call) => ret.kind = "None"
    /\ call.op = "import_file" =>
           /\ ret.kind \in {"DataFrame", "None"}
           /\ FileFailed(call) <=> ret.kind = "None"
           /\ ret.kind = "DataFrame" => ret.table = call.read.frame

(***************************************************************************)
(* int(s) and float(s) of a str, which is what the cast of an object       *)
(* column to an integer or a float dtype calls on each str cell.  A str is *)
(* the sequence of its code points.                                        *)
(***************************************************************************)
\* the code point of the digit zero of every script (Unicode 14, category Nd):
\* the ten digits of a script follow one another from it
DigitZeros ==
    { 48, 1632, 1776, 1984, 2406, 2534, 2662, 2790, 2918, 3046, 3174, 3302, 3430,
      3558, 3664, 3792, 3872, 4160, 4240, 6112, 6160, 6470, 6608, 6784, 6800, 6992,
      7088, 7232, 7248, 42528, 43216, 43264, 43472, 43504, 43600, 44016, 65296,
      66720, 68912, 69734, 69872, 69942, 70096, 70384, 70736, 70864, 71248, 71360,
      71472, 71904, 72016, 72784, 73040, 73120, 92768, 92864, 93008, 120782, 120792,
      120802, 120812, 120822, 123200, 123632, 125264, 130032 }

\* the code points int() and float() strip from both ends
Whitespace ==
    (9..13) \cup {32, 133, 160, 5760} \cup (8192..8202) \cup {8232, 8233, 8239, 8287, 12288}

is_digit(ch) == \E z \in DigitZeros : z <= ch /\ ch <= z + 9

\* s.strip()
strip(s) ==
    LET S == {i \in 1..Len(s) : s[i] \notin Whitespace}
    IN IF S = {} THEN <<>>
       ELSE SubSeq(s, CHOOSE i \in S : \A l \in S : i <= l, CHOOSE i \in S : \A l \in S : l <= i)

\* digits with single underscores between them: digit (["_"] digit)*
is_digitpart(s) ==
    /\ Len(s) >= 1
    /\ is_digit(s[1])
    /\ is_digit(s[Len(s)])
    /\ \A i \in 1..Len(s) :
           \/ is_digit(s[i])
           \/ s[i] = 95 /\ is_digit(s[i - 1]) /\ is_digit(s[i + 1])

\* the number the digits of a digitpart write, the underscores left out
RECURSIVE digits_value(_)
digits_value(s) ==
    IF s = <<>> THEN 0
    ELSE LET front == digits_value(SubSeq(s, 1, Len(s) - 1))
             ch == s[Len(s)]
         IN IF is_digit(ch)
            THEN 10 * front + (ch - CHOOSE z \in DigitZeros : z <= ch /\ ch <= z + 9)
            ELSE front

RECURSIVE Pow10(_)
Pow10(k) == IF k = 0 THEN 1 ELSE 10 * Pow10(k - 1)

\* s without its sign, "+" or "-", and the sign
unsigned(s) == IF s # <<>> /\ s[1] \in {43, 45} THEN Tail(s) ELSE s
sign(s) == IF s # <<>> /\ s[1] = 45 THEN -1 ELSE 1

\* int(s): whitespace around, an optional sign and a digitpart; ValueError
\* for anything else
int_of_str(s) ==
    LET u == unsigned(strip(s))
    IN IF is_digitpart(u)
       THEN [ok |-> TRUE, exc |-> "", value |-> Num(sign(strip(s)) * digits_value(u), 1)]
       ELSE [ok |-> FALSE, exc |-> "ValueError", value |-> NaN]

\* float(s): whitespace around, an optional sign, and then "inf", "infinity" or
\* "nan" in any case, or a decimal number: a digitpart, a point and a digitpart
\* with one of the two digitparts at least, and an optional exponent, "e" or "E",
\* an optional sign and a digitpart; ValueError for anything else.  The value
\* is held as the exact fraction the text denotes.
float_of_str(s) ==
    LET first(S, none) == IF S = {} THEN none ELSE CHOOSE i \in S : \A l \in S : i <= l
        \* the decimal number of the digits before and after the point and of
        \* the exponent, when there is one
        decimal(sgn, whole, frac, has_exponent, exponent) ==
            LET places == Cardinality({i \in 1..Len(frac) : is_digit(frac[i])})
                x == sign(exponent) * digits_value(unsigned(exponent))
                m == sgn * (digits_value(whole) * Pow10(places) + digits_value(frac))
            IN IF /\ whole = <<>> \/ is_digitpart(whole)
                  /\ frac = <<>> \/ is_digitpart(frac)
                  /\ Len(whole) + Len(frac) >= 1
                  /\ has_exponent => is_digitpart(unsigned(exponent))
               THEN [ok |-> TRUE, exc |-> "",
                     value |-> IF x >= 0 THEN Num(m * Pow10(x), Pow10(places))
                               ELSE Num(m, Pow10(places) * Pow10(-x))]
               ELSE [ok |-> FALSE, exc |-> "ValueError", value |-> NaN]
        \* the mantissa is cut at its first point
        mantissa_exponent(sgn, mantissa, has_exponent, exponent) ==
            LET p == first({i \in 1..Len(mantissa) : mantissa[i] = 46}, Len(mantissa) + 1)
            IN decimal(sgn, SubSeq(mantissa, 1, p - 1),
                       SubSeq(mantissa, p + 1, Len(mantissa)), has_exponent, exponent)
        \* u is the text after the sign; it is cut at its first "e" or "E"
        number(sgn, u) ==
            LET lower == [i \in 1..Len(u) |->
                             IF 65 <= u[i] /\ u[i] <= 90 THEN u[i] + 32 ELSE u[i]]
                e == first({i \in 1..Len(u) : u[i] \in {69, 101}}, Len(u) + 1)
            IN IF lower \in { <<105, 110, 102>>, <<105, 110, 102, 105, 110, 105, 116, 121>> }
               THEN [ok |-> TRUE, exc |-> "", value |-> Inf(sgn)]
               ELSE IF lower = <<110, 97, 110>>
               THEN [ok |-> TRUE, exc |-> "", value |-> NaN]
               ELSE mantissa_exponent(sgn, SubSeq(u, 1, e - 1), e <= Len(u),
                                      SubSeq(u, e + 1, Len(u)))
    IN number(sign(strip(s)), unsigned(strip(s)))

(***************************************************************************)
(* Series.astype(dtype), as pandas 1.x and 2.x do it on Linux.             *)
(***************************************************************************)
\* the number truncated toward zero
trunc(x) == IF x.n >= 0 THEN x.n \div x.d ELSE -((-x.n) \div x.d)

\* x.astype(np.float32) for a cell x: a number becomes the float32 nearest to
\* it, and any other cell stays what it is
float32_of(x) ==
    LET nearest(q) == round_half_even(q.bits, q.exp, q.rem # 0, 24)
        number(r, sgn) ==
            IF r.exp >= 0 THEN Num(sgn * int_of_bits(r.bits) * 2^(r.exp), 1)
            ELSE Num(sgn * int_of_bits(r.bits), 2^(-r.exp))
    IN IF x.k # "num" \/ x.n = 0 THEN x
       ELSE number(nearest(quotient_bits(Abs(x.n) % x.d, x.d, 26,
                                         bits_times(<<>>, 1, Abs(x.n) \div x.d), 0)),
                   IF x.n < 0 THEN -1 ELSE 1)

\* the numpy dtype a target names: 'int' and 'float' are the 64-bit dtypes; ""
\* stands for a name numpy does not understand, of which 'bool8x' is the one
\* held here.  The other dtypes numpy and pandas know by name are not held here.
target_dtype(dtype) ==
    CASE dtype \in {"int", "int64"}     -> "int64"
      [] dtype \in {"float", "float64"} -> "float64"
      [] dtype \in {"int8", "int16", "int32", "float32", "object"} -> dtype
      [] dtype = "bool8x"               -> ""

\* int(cell) and float(cell) for a cell of an object column, as the cast to an
\* integer and to a float dtype `to` call them: int truncates a number, and is
\* ValueError for NaN and OverflowError for an infinity; a str is parsed; a dict,
\* a Timestamp and NaT are TypeError.  The float is then rounded to float32 when that is the dtype.
\* The int is one the dtype holds: what numpy does with another int is not the
\* same in every version of it, and is not held here.
cast_cell(c, to) ==
    LET ok(value) == [ok |-> TRUE, exc |-> "", value |-> value]
        fail(e) == [ok |-> FALSE, exc |-> e, value |-> NaN]
        in_range(v) ==
            bits(to) >= 32 \/ (-(2^(bits(to) - 1)) <= v /\ v < 2^(bits(to) - 1))
        held(r) == IF ~r.ok THEN r ELSE CASE in_range(r.value.n) -> r
        rounded(r) == IF ~r.ok THEN r ELSE ok(IF to = "float32" THEN float32_of(r.value) ELSE r.value)
    IN CASE c.k = "str" ->
              IF kind(to) = "i" THEN held(int_of_str(c.s)) ELSE rounded(float_of_str(c.s))
         [] c.k = "num" -> IF kind(to) = "i" THEN held(ok(Num(trunc(c), 1))) ELSE rounded(ok(c))
         [] c.k = "iNaT" -> (CASE to \in {"int64", "float32", "float64"} -> ok(c))
         [] c.k = "nan" -> IF kind(to) = "i" THEN fail("ValueError") ELSE ok(c)
         [] c.k = "inf" -> IF kind(to) = "i" THEN fail("OverflowError") ELSE ok(c)
         [] c.k \in {"obj", "datetime", "nat"} -> fail("TypeError")

\* Series.astype(dtype):
\*   a name that is no dtype is TypeError;
\*   to object, the cells as they are;
\*   an integer column to an integer dtype: the same integers, or what is left of
\*     them modulo 2^bits in a dtype of fewer bits (every integer held here is
\*     within 32 bits); to a float dtype: the same numbers, rounded to float32
\*     when that is the dtype;
\*   a float column to an integer dtype: ValueError when a cell is NaN or an
\*     infinity, the cells truncated otherwise (a cell outside the range of the
\*     dtype is a cast C leaves undefined, and is not held here); to a float
\*     dtype: the same numbers, rounded to float32 when that is the dtype;
\*   a datetime column to int64: the nanoseconds, -2^63 for NaT; to a float
\*     dtype: TypeError (to another integer dtype: pandas 1 casts and pandas 2
\*     raises, which is not held here);
\*   an object column: int(cell) or float(cell) of each cell in row order, and
\*     the exception of the first cell that cannot be cast.
\* A bool and a category column are cast to object only.
astype(c, dtype) ==
    LET to == target_dtype(dtype)
        done(values) == [ok |-> TRUE, exc |-> "", column |-> Column(c.name, to, values)]
        fail(e) == [ok |-> FALSE, exc |-> e, column |-> c]
        cast(cells) ==
            LET bad == {i \in 1..Len(cells) : ~cells[i].ok}
            IN IF bad # {} THEN fail(cells[CHOOSE i \in bad : \A l \in bad : i <= l].exc)
               ELSE done([i \in 1..Len(cells) |-> cells[i].value])
        wrap(x) ==
            CASE x.k = "num" ->
                   IF bits(to) >= 32 THEN x
                   ELSE Num(((x.n + 2^(bits(to) - 1)) % 2^bits(to)) - 2^(bits(to) - 1), 1)
              [] x.k = "iNaT" -> IF to = "int64" THEN x ELSE Num(0, 1)
        truncated(x) ==
            CASE x.k = "iNaT" /\ to = "int64" -> x
              [] x.k = "num" /\ wrap(Num(trunc(x), 1)).n = trunc(x) -> Num(trunc(x), 1)
        as_float(x) == IF to = "float32" THEN float32_of(x) ELSE x
    IN IF to = "" THEN fail("TypeError")
       ELSE IF to = "object" THEN done(c.values)
       ELSE CASE kind(c.dtype) \in {"i", "u"} ->
                   done([i \in 1..Len(c.values) |->
                            IF kind(to) = "i" THEN wrap(c.values[i]) ELSE as_float(c.values[i])])
              [] kind(c.dtype) = "f" ->
                   IF kind(to) = "f" THEN done([i \in 1..Len(c.values) |-> as_float(c.values[i])])
                   ELSE IF \E i \in 1..Len(c.values) : c.values[i].k \in {"nan", "inf"}
                   THEN fail("ValueError")
                   ELSE done([i \in 1..Len(c.values) |-> truncated(c.values[i])])
              [] kind(c.dtype) = "M" ->
                   IF kind(to) = "f" THEN fail("TypeError")
                   ELSE (CASE to = "int64" ->
                             done([i \in 1..Len(c.values) |->
                                      IF c.values[i].k = "nat" THEN iNaT
                                      ELSE Num(c.values[i].n, 1)]))
              [] c.dtype = "object" ->
                   cast([i \in 1..Len(c.values) |-> cast_cell(c.values[i], to)])

\* pd.to_datetime(df[col], infer_datetime_format=True, errors='coerce'), cell by
\* cell: a number is that many nanoseconds after the epoch (a fraction of one is
\* cut off), NaN and -2^63 are NaT, a Timestamp is itself, a str is what the
\* parser makes of it, a Timestamp or, for text that is no date, NaT (parse is
\* the parser: a function from the str it knows to what it reads in them), and
\* any other object is NaT
to_datetime(c, parse) ==
    Column(c.name, "datetime64[ns]",
           [i \in 1..Len(c.values) |->
               LET x == c.values[i]
               IN CASE x.k = "num"      -> Timestamp(trunc(x))
                    [] x.k = "datetime" -> x
                    [] x.k = "str"      -> IF x.s \in DOMAIN parse THEN parse[x.s] ELSE NaT
                    [] OTHER            -> NaT])

\* df[name] = column, for a column df has
set_column(t, column) ==
    DataFrame(t.index,
        [j \in 1..Len(t.cols) |-> IF t.cols[j].name = column.name THEN column ELSE t.cols[j]])

(***************************************************************************)
(* DataProcess.convert_data_type.                                          *)
(***************************************************************************)
\* one pass of the loop body of convert_data_type, for column `name`: the
\* DataFrame after it and the exception that leaves the loop, "" for none.
\*   df[col] raises KeyError for a name df has not;
\*   astype raises ValueError, which `except ValueError` catches and prints, or
\*     another exception, which nothing catches;
\*   for 'int' and 'float', .apply(DataProcess.infer_numeric_dtype) calls
\*     infer_numeric_dtype on every cell of the cast column, a Python int or
\*     float, and `series.dtype` of it raises AttributeError;
\*   for 'datetime', to_datetime with errors='coerce' raises nothing.
convert_column(t, name, dtype, parse) ==
    IF name \notin names_of(t) THEN [frame |-> t, exc |-> "KeyError"]
    ELSE IF dtype = "datetime"
    THEN [frame |-> set_column(t, to_datetime(col(t, name), parse)), exc |-> ""]
    ELSE LET cast(r) ==
                 IF ~r.ok
                 THEN [frame |-> t, exc |-> IF r.exc = "ValueError" THEN "" ELSE r.exc]
                 ELSE IF dtype \in {"int", "float"} /\ t.n > 0
                 THEN [frame |-> t, exc |-> "AttributeError"]
                 ELSE [frame |-> set_column(t, r.column), exc |-> ""]
         IN cast(astype(col(t, name), dtype))

\* the loop `for col in cols` from column i on
RECURSIVE convert_loop(_, _, _, _, _)
convert_loop(t, cols, dtype, parse, i) ==
    IF i > Len(cols) THEN [frame |-> t, exc |-> ""]
    ELSE LET rest(step) ==
                 IF step.exc # "" THEN step
                 ELSE convert_loop(step.frame, cols, dtype, parse, i + 1)
         IN rest(convert_column(t, cols[i], dtype, parse))

\* DataProcess.convert_data_type: df is changed in place and returned
convert_data_type(t, cols, dtype, parse) == convert_loop(t, cols, dtype, parse, 1)

(***************************************************************************)
(* The calls of convert_data_type.  The DataFrame holds int64 columns (of  *)
(* 1 and of 200, which int8 does not hold), float64 columns and object     *)
(* columns of str and dict cells; the str are                              *)
(* "12", " 1_2", "1e1" and "x".  The targets are 'int' and 'float' (the    *)
(* branch that narrows), 'datetime', and 'int64', 'int32', 'int8',         *)
(* 'float64', 'float32' and 'bool8x' (the plain astype branch, the last    *)
(* being no dtype).                                                        *)
(***************************************************************************)
Strings == { <<49, 50>>, <<32, 49, 95, 50>>, <<49, 101, 49>>, <<120>> }

InitConvert ==
    LET CastColumns(name, n) ==
            { Column(name, "int64", vs) : vs \in [1..n -> {Num(1, 1), Num(200, 1)}] }
            \cup { Column(name, "float64", vs) : vs \in [1..n -> {NaN, Num(3, 2)}] }
            \cup { Column(name, "object", vs) :
                     vs \in [1..n -> {Str(s) : s \in Strings} \cup {Obj}] }
    IN
    /\ df \in UNION { { DataFrame(RangeIndex(n), <<a>>) : a \in CastColumns("a", n) }
                      \cup { DataFrame(RangeIndex(n), <<a, b>>) :
                               a \in CastColumns("a", n), b \in CastColumns("b", n) } :
                      n \in 1..MaxCastRows }
    /\ series = NoSeries
    /\ call = NoCall
    /\ ret = NoReturn

\* parse is what the date parser reads in the str of the model: a date in "12"
\* or none, and none in the others; it is asked by the target 'datetime' only.
\* The dtypes of fewer than 64 bits are the targets of a DataFrame as it was
\* read, of int64, float64 and object columns of the cells above: pandas 1 and
\* pandas 2 do not cast a datetime column to them alike, and a float that was NaT
\* is in the range of none of them; nor is a float cell of the DataFrame outside
\* the range of int8, the cast of which to int8 C leaves undefined.  The columns
\* cast to them are the caller's last conversion.
ConvertDataType ==
    /\ Ready
    /\ \E cols \in ListsOf({"a", "b", "zz"}) \ {<<>>},
          dtype \in {"int", "float", "int64", "int32", "int8", "float64", "float32",
                    "datetime", "bool8x"},
          date \in {NaT, Timestamp(0)} :
        LET parse == [s \in Strings |-> IF s = <<49, 50>> THEN date ELSE NaT]
            r == convert_data_type(df, cols, dtype, parse)
        IN /\ dtype # "datetime" => date = NaT
           /\ \A j \in 1..Len(df.cols) : df.cols[j].dtype \notin {"int32", "int8", "float32"}
           /\ dtype \in {"int32", "int8", "float32"} =>
                  \A j \in 1..Len(df.cols) :
                      /\ df.cols[j].dtype \in {"int64", "float64", "object"}
                      /\ \A i \in 1..df.n : df.cols[j].values[i] # iNaT
                      /\ df.cols[j].dtype = "float64" =>
                             \A i \in 1..df.n : Abs(df.cols[j].values[i].n) < 128 * df.cols[j].values[i].d
           /\ call' = [op |-> "convert_data_type", cols |-> cols, dtype |-> dtype,
                       parse |-> parse, df |-> df]
           /\ df' = r.frame
           /\ ret' = IF r.exc # "" THEN Raised(r.exc) ELSE Returned(r.frame)
           /\ UNCHANGED series

NextConvert ==
    \/ ConvertDataType
    \/ Discard

SpecConvert == InitConvert /\ [][NextConvert]_vars

(***************************************************************************)
(* Claims about convert_data_type (SpecConvert).                           *)
(***************************************************************************)
\* converting column `name` of t fails: the name is absent, a value cannot be
\* parsed, or a value is of a type that cannot be cast
ConversionFails(t, name, dtype) ==
    name \notin names_of(t) \/ (dtype # "datetime" /\ ~astype(col(t, name), dtype).ok)

\* column `name` of t converted, for a conversion that does not fail
Converted(t, name, dtype, parse) ==
    IF dtype = "datetime" THEN to_datetime(col(t, name), parse)
    ELSE astype(col(t, name), dtype).column

\* C4 as claimed: when the conversion of one column of the batch fails, the call
\* does not raise, the failing column is left as it was, and every other column
\* of the batch, before and after it, is converted.
C4_PartialFailure ==
    (/\ call.op = "convert_data_type"
     /\ Cardinality({i \in 1..Len(call.cols) :
                        ConversionFails(call.df, call.cols[i], call.dtype)}) = 1) =>
        /\ ret.kind = "DataFrame"
        /\ ret.table = df
        /\ \A i \in 1..Len(call.cols) :
               LET name == call.cols[i]
               IN IF ConversionFails(call.df, name, call.dtype)
                  THEN name \in names_of(call.df) => col(df, name) = col(call.df, name)
                  ELSE col(df, name) = Converted(call.df, name, call.dtype, call.parse)

\* the column as an integer Series
AsSeries(c) == [dtype |-> c.dtype, values |-> [i \in 1..Len(c.values) |-> Small(c.values[i].n)]]

\* C7 as claimed: after convert_data_type(df, [c], 'int') on a column c that can
\* be cast to integers, infer_numeric_dtype on the converted column returns a
\* signed integer type no wider than the column's type before the call and no
\* wider than 64 bits, and the column holds the integers of its values.
C7_RoundTrip ==
    (/\ call.op = "convert_data_type"
     /\ call.dtype = "int"
     /\ Len(call.cols) = 1
     /\ ~ConversionFails(call.df, call.cols[1], "int")) =>
        /\ ret.kind = "DataFrame"
        /\ LET c == col(ret.table, call.cols[1])
               t == infer_numeric_dtype(AsSeries(c))
           IN /\ c.values = astype(col(call.df, call.cols[1]), "int").column.values
              /\ kind(c.dtype) = "i"
              /\ t \in SeqToSet(SignedTypes)
              /\ bits(t) <= bits(col(call.df, call.cols[1]).dtype)
              /\ bits(t) <= 64

(***************************************************************************)
(* pd.cut(x, bins=bins, labels=labels), with right=True,                   *)
(* include_lowest=False, precision=3, duplicates='raise' and ordered=True, *)
(* the defaults bin_columns leaves in place.  bins is an int, the number   *)
(* of intervals of equal width, or the list of the edges; labels is a list *)
(* of labels, False (the result is the number of the interval) or None     *)
(* (the result is the interval).                                           *)
(***************************************************************************)
\* bins is held as [int, n, edges]: bins=n is [TRUE, n, <<>>] and bins=[edges]
\* is [FALSE, 0, edges].  labels is held as [mode, names]: mode is "list" for
\* labels=[names], "False" for labels=False and "None" for labels=None.
NumSub(x, y) == NumAdd(x, Num(-y.n, y.d))

\* np.around(x, digits): x * 10^digits brought to the nearest integer, the even
\* one of two equally near (np.rint), over 10^digits
around(x, digits) ==
    LET rint(n, d) ==
            LET f == n \div d
                r == 2 * (n - f * d)
            IN IF r < d THEN f
               ELSE IF r > d THEN f + 1
               ELSE IF f % 2 = 0 THEN f ELSE f + 1
        nearest(y) == rint(y.n, y.d)
    IN Num(nearest(NumMul(x, Num(Pow10(digits), 1))), Pow10(digits))

\* -floor(log10(|x|)) for 0 < |x| < 1: the least k with |x| * 10^k >= 1
RECURSIVE lead(_, _)
lead(x, k) == IF Abs(x.n) * Pow10(k) >= x.d THEN k ELSE lead(x, k + 1)

\* _round_frac(x, precision): x rounded to `precision` decimals, or to that
\* many significant digits when |x| < 1
round_frac(x, precision) ==
    IF x.k # "num" \/ x.n = 0 THEN x
    ELSE IF Abs(x.n) < x.d THEN around(x, lead(x, 1) - 1 + precision)
    ELSE around(x, precision)

\* _infer_precision(3, bins): the least precision from `precision` to 19 at
\* which the rounded edges are as many as the edges, 3 when there is none
RECURSIVE infer_precision(_, _)
infer_precision(edges, precision) ==
    IF precision >= 20 THEN 3
    ELSE IF Cardinality({round_frac(edges[i], precision) : i \in 1..Len(edges)}) = Len(edges)
    THEN precision
    ELSE infer_precision(edges, precision + 1)

\* np.linspace(a, b, m), m >= 2
linspace(a, b, m) ==
    [i \in 1..m |-> NumAdd(a, NumDivInt(NumMul(NumSub(b, a), Num(i - 1, 1)), m - 1))]

\* the edges of bins=nbins (_nbins_to_bins), for a numeric x:
\*   nbins < 1 and an empty x are ValueError, and so is an infinity in x;
\*   an x of missing values only has min() and max() NaN, and every edge is NaN;
\*   when min() == max(), the range is widened by a thousandth of |min| on each
\*     side (by 0.001 around 0);
\*   otherwise the range min() to max() is cut in nbins, and the first edge is
\*     lowered by a thousandth of the range so that min() falls in the first
\*     interval.
nbins_to_bins(c, nbins) ==
    LET valid == {c.values[i] : i \in {l \in 1..Len(c.values) : ~isna(c.values[l])}}
        mn == CHOOSE v \in valid : \A w \in valid : ~NumLess(w, v)
        mx == CHOOSE v \in valid : \A w \in valid : ~NumLess(v, w)
        adj == IF mn.n = 0 THEN Num(1, 1000) ELSE Num(Abs(mn.n), mn.d * 1000)
        even == linspace(mn, mx, nbins + 1)
    IN IF nbins < 1 THEN [ok |-> FALSE, exc |-> "ValueError", edges |-> <<>>]
       ELSE IF c.values = <<>> THEN [ok |-> FALSE, exc |-> "ValueError", edges |-> <<>>]
       ELSE IF kind(c.dtype) \notin {"i", "u", "f"}
       THEN [ok |-> FALSE, exc |-> "TypeError", edges |-> <<>>]
       ELSE IF \E v \in valid : v.k = "inf"
       THEN [ok |-> FALSE, exc |-> "ValueError", edges |-> <<>>]
       ELSE IF valid = {}
       THEN [ok |-> TRUE, exc |-> "", edges |-> [i \in 1..(nbins + 1) |-> NaN]]
       ELSE IF mn = mx
       THEN [ok |-> TRUE, exc |-> "",
             edges |-> linspace(NumSub(mn, adj), NumAdd(mx, adj), nbins + 1)]
       ELSE [ok |-> TRUE, exc |-> "",
             edges |-> [i \in 1..(nbins + 1) |->
                          IF i = 1 THEN NumSub(mn, NumDivInt(NumSub(mx, mn), 1000))
                          ELSE even[i]]]

\* _bins_to_cuts: the cells of x in the intervals (edges[i], edges[i+1]].
\*   Equal edges are ValueError, unless the edges are two.
\*   bins.searchsorted(x, side='left') counts the edges below a cell.
\*   A cell is missing in the result when it is missing in x, or at or below
\*     the first edge, or above the last.
\*   labels=None: the label of an interval is pd.Interval(l, r, closed='right'),
\*     a cell of its kind that holds the two ends, rounded;
\*     an edge that is NaN is no end of an interval (ValueError).
\*   labels=[names]: ValueError when a name comes twice or the names are not as
\*     many as the intervals.
\*   labels=False: the number of the interval, from 0, as int64, or as float64
\*     when a cell of the result is missing.
bins_to_cuts(c, edges, labels) ==
    LET n == Len(c.values)
        searchsorted(x) ==
            Cardinality({i \in 1..Len(edges) : edges[i].k = "num" /\ NumLess(edges[i], x)})
        ids == [i \in 1..n |-> IF isna(c.values[i]) THEN 0 ELSE searchsorted(c.values[i])]
        na == [i \in 1..n |-> isna(c.values[i]) \/ ids[i] = 0 \/ ids[i] = Len(edges)]
        Interval(l, r) == [k |-> "interval", n |-> 0, d |-> 1, s |-> <<l.n, l.d, r.n, r.d>>]
        breaks(precision) == [i \in 1..Len(edges) |-> round_frac(edges[i], precision)]
        intervals(ends) ==
            [i \in 1..n |-> IF na[i] THEN NaN ELSE Interval(ends[ids[i]], ends[ids[i] + 1])]
        fail(e) == [ok |-> FALSE, exc |-> e, column |-> c]
        done(dtype, values) == [ok |-> TRUE, exc |-> "", column |-> Column(c.name, dtype, values)]
    IN IF Cardinality(SeqToSet(edges)) < Len(edges) /\ Len(edges) # 2 THEN fail("ValueError")
       ELSE IF kind(c.dtype) \notin {"i", "u", "f"} THEN fail("TypeError")
       ELSE IF labels.mode = "None"
       THEN IF \E i \in 1..Len(edges) : edges[i].k # "num" THEN fail("ValueError")
            ELSE done("category", intervals(breaks(infer_precision(edges, 3))))
       ELSE IF labels.mode = "list"
       THEN IF Cardinality(SeqToSet(labels.names)) # Len(labels.names) THEN fail("ValueError")
            ELSE IF Len(labels.names) # Len(edges) - 1 THEN fail("ValueError")
            ELSE done("category", [i \in 1..n |-> IF na[i] THEN NaN ELSE labels.names[ids[i]]])
       ELSE IF \E i \in 1..n : na[i]
       THEN done("float64", [i \in 1..n |-> IF na[i] THEN NaN ELSE Num(ids[i] - 1, 1)])
       ELSE done("int64", [i \in 1..n |-> Num(ids[i] - 1, 1)])

\* pd.cut(x, bins=bins, labels=labels) for a column x of numbers: the edges
\* of bins=[edges] are ValueError unless they never decrease.  A column that is
\* not numeric (the category column of an earlier cut) is given TypeError here,
\* which is what the arithmetic on its labels raises.
cut(c, bins, labels) ==
    LET cuts(e) ==
            IF ~e.ok THEN [ok |-> FALSE, exc |-> e.exc, column |-> c]
            ELSE bins_to_cuts(c, e.edges, labels)
    IN cuts(IF bins.int THEN nbins_to_bins(c, bins.n)
            ELSE IF \A i \in 1..(Len(bins.edges) - 1) :
                       ~NumLess(bins.edges[i + 1], bins.edges[i])
            THEN [ok |-> TRUE, exc |-> "", edges |-> bins.edges]
            ELSE [ok |-> FALSE, exc |-> "ValueError", edges |-> <<>>])

(***************************************************************************)
(* DataProcess.bin_columns.  bins_meta is a dict: here the sequence of its *)
(* items, <<col, meta>> as [col, meta], in the order of the dict; a meta   *)
(* is a dict that has the keys 'bins' and 'labels', or lacks them.         *)
(***************************************************************************)
\* the loop `for col, meta in bins_meta.items()` from item i on.  One pass, for
\* the item <<name, meta>>: meta['bins'] and meta['labels'] raise KeyError for a
\* key meta has not, df[col] raises KeyError for a column df has not, pd.cut
\* raises what it raises, and df[col] = ... puts the result in the place of the
\* column.  An exception leaves the loop, and the columns binned before it stay
\* binned in df.
RECURSIVE bin_loop(_, _, _)
bin_loop(t, bins_meta, i) ==
    IF i > Len(bins_meta) THEN [frame |-> t, exc |-> ""]
    ELSE LET name == bins_meta[i].col
             meta == bins_meta[i].meta
             rest(r) ==
                 IF ~r.ok THEN [frame |-> t, exc |-> r.exc]
                 ELSE bin_loop(set_column(t, r.column), bins_meta, i + 1)
         IN IF ~meta.has_bins \/ ~meta.has_labels THEN [frame |-> t, exc |-> "KeyError"]
            ELSE IF name \notin names_of(t) THEN [frame |-> t, exc |-> "KeyError"]
            ELSE rest(cut(col(t, name), meta.bins, meta.labels))

\* DataProcess.bin_columns: df is changed in place and returned
bin_columns(t, bins_meta) == bin_loop(t, bins_meta, 1)

(***************************************************************************)
(* The calls of bin_columns.  The DataFrame has the float64 columns "a"    *)
(* and "b", or "a" alone, of the cells NaN, 1, 2 and 3, and at most        *)
(* MaxBinRows rows.  The caller bins numeric columns: a column that a cut  *)
(* with labels has made a category column is not binned again.             *)
(***************************************************************************)
\* the metas: every bins with every labels, the labels being "l", "m" and "h",
\* and the metas that lack a key.  bins_meta is of one column, or of two columns
\* with the same meta, one of three.
BinsMetas ==
    LET Low == Str(<<108>>)
        Mid == Str(<<109>>)
        High == Str(<<104>>)
        IntBins(n) == [int |-> TRUE, n |-> n, edges |-> <<>>]
        ListBins(e) == [int |-> FALSE, n |-> 0, edges |-> e]
        Labels(how, l) == [mode |-> how, names |-> l]
        Meta(has_bins, b, has_labels, l) ==
            [has_bins |-> has_bins, bins |-> b, has_labels |-> has_labels, labels |-> l]
        bins == { IntBins(n) : n \in 0..MaxBins }
                \cup { ListBins(e) :
                         e \in { <<Num(0, 1), Num(2, 1), Num(3, 1)>>, <<Num(1, 1), Num(2, 1)>>,
                                 <<Num(2, 1), Num(1, 1)>>, <<Num(1, 1), Num(1, 1), Num(2, 1)>> } }
        labels == { Labels("False", <<>>), Labels("None", <<>>) }
                  \cup { Labels("list", l) :
                           l \in { <<Low>>, <<Low, High>>, <<Low, Low>>, <<Low, Mid, High>> } }
        Metas == { Meta(TRUE, b, TRUE, l) : b \in bins, l \in labels }
                 \cup { Meta(TRUE, IntBins(2), FALSE, Labels("None", <<>>)),
                        Meta(FALSE, IntBins(0), TRUE, Labels("list", <<Low, High>>)) }
        pair == { Meta(TRUE, IntBins(2), TRUE, Labels("False", <<>>)),
                  Meta(TRUE, IntBins(2), TRUE, Labels("list", <<Low, High>>)),
                  Meta(TRUE, ListBins(<<Num(2, 1), Num(1, 1)>>), TRUE, Labels("False", <<>>)) }
    IN { <<[col |-> c, meta |-> m]>> : c \in {"a", "b", "zz"}, m \in Metas }
       \cup { <<[col |-> cs[1], meta |-> m], [col |-> cs[2], meta |-> m]>> :
                cs \in { l \in ListsOf({"a", "b", "zz"}) : Len(l) = 2 }, m \in pair }

InitBin ==
    /\ df \in FramesOver(<<"a", "b">>, 0..MaxBinRows, {NaN, Num(1, 1), Num(2, 1), Num(3, 1)})
    /\ series = NoSeries
    /\ call = NoCall
    /\ ret = NoReturn

BinColumns ==
    /\ Ready
    /\ \E bins_meta \in BinsMetas :
        LET r == bin_columns(df, bins_meta)
        IN /\ \A i \in 1..Len(bins_meta) :
                  bins_meta[i].col \in names_of(df) =>
                      kind(col(df, bins_meta[i].col).dtype) \in {"i", "u", "f"}
           /\ call' = [op |-> "bin_columns", bins_meta |-> bins_meta, df |-> df]
           /\ df' = r.frame
           /\ ret' = IF r.exc # "" THEN Raised(r.exc) ELSE Returned(r.frame)
           /\ UNCHANGED series

NextBin ==
    \/ BinColumns
    \/ Discard

SpecBin == InitBin /\ [][NextBin]_vars

============================================================================
